---- MODULE Spec2Model ----
(***************************************************************************)
(* A model of google/cloud/bigquery/_helpers.py: the JSON <-> native value *)
(* converters, the record encoder, the qualified-id parser and the nested  *)
(* property accessors.                                                     *)
(*                                                                         *)
(* Python values are records tagged by their type in field t.  A str is a  *)
(* sequence of one-character strings, so that len(), iteration, indexing   *)
(* and concatenation are the ones of the program.  A dict is a function    *)
(* from keys to values; a tuple or list is a sequence of values.           *)
(***************************************************************************)
EXTENDS Integers, Sequences, FiniteSets, TLC

VARIABLES
    dec_op,      \* decoder: the function called last ("none" before a call)
    dec_type,    \* decoder: the key looked up in _CELLDATA_FROM_JSON
    dec_field,   \* decoder: the SchemaField argument (NoField for None)
    dec_value,   \* decoder: the wire value argument
    dec_result,  \* decoder: the call's outcome
    enc_op,      \* encoder: the function called last ("none" before a call)
    enc_field,   \* encoder: the SchemaField argument of _field_to_json
    enc_fields,  \* encoder: the subfields argument of _record_field_to_json
    enc_value,   \* encoder: the native value argument
    enc_result,  \* encoder: the call's outcome
    id_op,       \* ids: the function called last ("none" before a call)
    id_full,     \* ids: the full_id argument
    id_default,  \* ids: the default_project argument
    id_result,   \* ids: the call's outcome
    container,   \* nested properties: the dictionary the accessors work on
    before,      \* nested properties: the dictionary before the last call
    sub_keys,    \* nested properties: the keys argument of the calls
    sub_value,   \* nested properties: the value argument of _set_sub_prop
    log,         \* nested properties: the calls made, with their outcomes
    modules,     \* versions: per cache, the library that can be imported
    _installed_version,  \* versions: per cache, its _installed_version attribute
    readers      \* versions: per thread, its place in installed_version

dec_vars == <<dec_op, dec_type, dec_field, dec_value, dec_result>>
enc_vars == <<enc_op, enc_field, enc_fields, enc_value, enc_result>>
id_vars == <<id_op, id_full, id_default, id_result>>
nested_vars == <<container, before, sub_keys, sub_value, log>>

ver_vars == <<modules, _installed_version, readers>>

vars == <<dec_vars, enc_vars, id_vars, nested_vars, ver_vars>>

\* A component no call is made on, in the specifications of the others.
Unused == [kind |-> "unused"]
\* The same for a variable that holds a sequence.
NoFields == <<Unused>>
DecodeIdle ==
    /\ dec_op = "none" /\ dec_type = "" /\ dec_field = Unused
    /\ dec_value = Unused /\ dec_result = Unused
EncodeIdle ==
    /\ enc_op = "none" /\ enc_field = Unused /\ enc_fields = NoFields
    /\ enc_value = Unused /\ enc_result = Unused
IdIdle ==
    /\ id_op = "none" /\ id_full = Unused /\ id_default = Unused
    /\ id_result = Unused
NestedIdle ==
    /\ container = Unused /\ before = Unused /\ sub_keys = Unused
    /\ sub_value = Unused /\ log = <<>>
VersionIdle ==
    /\ modules = Unused /\ _installed_version = Unused /\ readers = Unused

(***************************************************************************)
(* Bounds of the model.                                                    *)
(***************************************************************************)
\* Longest wire text the decoder is given.
MaxWireLen == 2

(***************************************************************************)
(* Python values and call outcomes.                                        *)
(***************************************************************************)
None == [t |-> "None"]
PyInt(n) == [t |-> "int", v |-> n]
PyBool(b) == [t |-> "bool", v |-> b]
PyStr(s) == [t |-> "str", v |-> s]
\* A float, a Decimal: the model holds the integral ones, by their value.
PyFloat(n) == [t |-> "float", v |-> n]
PyDecimal(n) == [t |-> "Decimal", v |-> n]
\* bytes: a sequence of octets.
PyBytes(b) == [t |-> "bytes", v |-> b]
PyList(s) == [t |-> "list", v |-> s]
PyTuple(s) == [t |-> "tuple", v |-> s]
PyDict(f) == [t |-> "dict", v |-> f]
EmptyDict == PyDict(<<>>)

\* A call returns a value or raises an exception (named by its class).
Return(x) == [kind |-> "return", val |-> x]
Raise(e) == [kind |-> "raise", exc |-> e]
Returned(r) == r.kind = "return"
Raised(r) == r.kind = "raise"

IsNone(x) == x.t = "None"
IsStr(x) == x.t = "str"
IsDict(x) == x.t = "dict"

\* dict.get(key), "key in dict", dict[key] of a dict value.
HasKey(d, k) == k \in DOMAIN d.v
DictGet(d, k) == IF HasKey(d, k) THEN d.v[k] ELSE None

(***************************************************************************)
(* Text helpers: digits, int(str), str.lower().                            *)
(***************************************************************************)
Digits == {"0", "1", "2", "3", "4", "5", "6", "7", "8", "9"}

DigitVal(c) ==
    CASE c = "0" -> 0 [] c = "1" -> 1 [] c = "2" -> 2 [] c = "3" -> 3
      [] c = "4" -> 4 [] c = "5" -> 5 [] c = "6" -> 6 [] c = "7" -> 7
      [] c = "8" -> 8 [] c = "9" -> 9

IsDigits(s) == Len(s) > 0 /\ \A i \in 1..Len(s) : s[i] \in Digits

RECURSIVE DecimalValue(_)
DecimalValue(s) ==
    IF Len(s) = 0 THEN 0
    ELSE 10 * DecimalValue(SubSeq(s, 1, Len(s) - 1)) + DigitVal(s[Len(s)])

Tail1(s) == SubSeq(s, 2, Len(s))

\* An optionally signed run of digits: the literals int(), float() and
\* Decimal() all accept among the texts over WireChars.
IsIntLiteral(s) ==
    /\ Len(s) > 0
    /\ IF s[1] \in {"-", "+"} THEN IsDigits(Tail1(s)) ELSE IsDigits(s)

IntLiteralValue(s) ==
    IF s[1] = "-" THEN 0 - DecimalValue(Tail1(s))
    ELSE IF s[1] = "+" THEN DecimalValue(Tail1(s))
    ELSE DecimalValue(s)

LowerChar(c) ==
    CASE c = "T" -> "t" [] c = "R" -> "r" [] c = "U" -> "u" [] c = "E" -> "e"
      [] OTHER -> c

Lower(s) == [i \in 1..Len(s) |-> LowerChar(s[i])]

\* All texts over the characters cs of length lo..hi.
RECURSIVE TextsOfLen(_, _)
TextsOfLen(cs, n) ==
    IF n = 0 THEN {<<>>}
    ELSE {<<c>> \o s : c \in cs, s \in TextsOfLen(cs, n - 1)}

Texts(cs, lo, hi) == UNION {TextsOfLen(cs, n) : n \in lo..hi}

(***************************************************************************)
(* datetime.datetime.strptime, for the formats of the module.  A format is *)
(* a sequence of tokens: a directive ("%Y", "%m", ...) or one literal      *)
(* character.  CPython turns the format into a regular expression,         *)
(* compiled with IGNORECASE, matches it at the start of the text and then  *)
(* rejects a match that leaves text unconverted; each numeric directive    *)
(* tries its two-character alternatives before its one-character one, and  *)
(* %f is a greedy run of one to six digits.                                *)
(***************************************************************************)
_RFC3339_MICROS_NO_ZULU ==
    <<"%Y", "-", "%m", "-", "%d", "T", "%H", ":", "%M", ":", "%S", ".", "%f">>
\* google.cloud._helpers._RFC3339_NO_FRACTION
_RFC3339_NO_FRACTION ==
    <<"%Y", "-", "%m", "-", "%d", "T", "%H", ":", "%M", ":", "%S">>
_TIMEONLY_WO_MICROS == <<"%H", ":", "%M", ":", "%S">>
_TIMEONLY_W_MICROS == <<"%H", ":", "%M", ":", "%S", ".", "%f">>
\* The format of google.cloud._helpers._date_from_iso8601_date.
IsoDateFormat == <<"%Y", "-", "%m", "-", "%d">>

Directives == {"%Y", "%m", "%d", "%H", "%M", "%S", "%f"}

\* The widths a directive tries, in the order the regular expression does.
DirectiveWidths(d) ==
    CASE d = "%Y" -> <<4>>
      [] d = "%f" -> <<6, 5, 4, 3, 2, 1>>
      [] OTHER -> <<2, 1>>

\* Whether the text w (of one of the directive's widths) matches directive d.
DirectiveMatches(d, w) ==
    IF d = "%d" /\ Len(w) = 2 /\ w[1] = " "
    THEN w[2] \in Digits \ {"0"}
    ELSE /\ IsDigits(w)
         /\ LET n == DecimalValue(w) IN
            CASE d = "%Y" -> TRUE
              [] d = "%f" -> TRUE
              [] d = "%m" -> n \in 1..12
              [] d = "%d" -> n \in 1..31
              [] d = "%H" -> IF Len(w) = 2 THEN n \in 0..23 ELSE TRUE
              [] d = "%M" -> IF Len(w) = 2 THEN n \in 0..59 ELSE TRUE
              [] d = "%S" -> IF Len(w) = 2 THEN n \in 0..61 ELSE TRUE

RECURSIVE RightPad(_, _)
RightPad(w, n) == IF Len(w) >= n THEN w ELSE RightPad(w \o <<"0">>, n)

DirectiveValue(d, w) ==
    IF d = "%f" THEN DecimalValue(RightPad(w, 6))
    ELSE IF w[1] = " " THEN DecimalValue(Tail1(w))
    ELSE DecimalValue(w)

NoMatch == [ok |-> FALSE, f |-> <<>>, end |-> 0]

\* The first match, in the regular expression's order, of the format's tokens
\* i.. against the text from position pos: the directives' values by name
\* and the position after the match.
RECURSIVE StrpMatch(_, _, _, _)
RECURSIVE StrpTry(_, _, _, _, _)
StrpTry(fmt, i, s, pos, k) ==
    LET ws == DirectiveWidths(fmt[i]) IN
    IF k > Len(ws) THEN NoMatch
    ELSE LET w == ws[k]
             text == SubSeq(s, pos, pos + w - 1)
             rest == IF pos + w - 1 <= Len(s) /\ DirectiveMatches(fmt[i], text)
                     THEN StrpMatch(fmt, i + 1, s, pos + w)
                     ELSE NoMatch
         IN IF rest.ok
            THEN [ok |-> TRUE, end |-> rest.end,
                  f |-> [d \in DOMAIN rest.f \cup {fmt[i]} |->
                            IF d = fmt[i] THEN DirectiveValue(fmt[i], text)
                            ELSE rest.f[d]]]
            ELSE StrpTry(fmt, i, s, pos, k + 1)

StrpMatch(fmt, i, s, pos) ==
    IF i > Len(fmt) THEN [ok |-> TRUE, f |-> <<>>, end |-> pos]
    ELSE IF fmt[i] \in Directives THEN StrpTry(fmt, i, s, pos, 1)
    ELSE IF pos <= Len(s) /\ LowerChar(s[pos]) = LowerChar(fmt[i])
         THEN StrpMatch(fmt, i + 1, s, pos + 1)
         ELSE NoMatch

IsLeap(y) == y % 4 = 0 /\ (y % 100 # 0 \/ y % 400 = 0)

DaysInMonth(y, m) ==
    IF m = 2 THEN (IF IsLeap(y) THEN 29 ELSE 28)
    ELSE IF m \in {4, 6, 9, 11} THEN 30 ELSE 31

\* Native calendar values.  tz is "naive" or "UTC".
PyDatetime(y, mo, d, h, mi, s, us, tz) ==
    [t |-> "datetime", v |-> <<y, mo, d, h, mi, s, us>>, tz |-> tz]
PyDate(y, mo, d) == [t |-> "date", v |-> <<y, mo, d>>]
PyTime(h, mi, s, us) == [t |-> "time", v |-> <<h, mi, s, us>>]

Field0(f, d, default) == IF d \in DOMAIN f THEN f[d] ELSE default

\* datetime.datetime.strptime(text, fmt): a naive datetime, the missing
\* fields 1900-01-01 00:00:00; ValueError when the text does not match or
\* names no valid date and time.
strptime(x, fmt) ==
    IF ~IsStr(x) THEN Raise("TypeError")
    ELSE LET m == StrpMatch(fmt, 1, x.v, 1)
             y == Field0(m.f, "%Y", 1900)
             mo == Field0(m.f, "%m", 1)
             d == Field0(m.f, "%d", 1)
             sec == Field0(m.f, "%S", 0)
         IN IF /\ m.ok /\ m.end = Len(x.v) + 1
               /\ y >= 1 /\ d <= DaysInMonth(y, mo) /\ sec <= 59
            THEN Return(PyDatetime(y, mo, d, Field0(m.f, "%H", 0),
                                   Field0(m.f, "%M", 0), sec,
                                   Field0(m.f, "%f", 0), "naive"))
            ELSE Raise("ValueError")

\* datetime.date(), datetime.time() of a strptime outcome.
DateOf(r) ==
    IF Raised(r) THEN r ELSE Return(PyDate(r.val.v[1], r.val.v[2], r.val.v[3]))
TimeOf(r) ==
    IF Raised(r) THEN r
    ELSE Return(PyTime(r.val.v[4], r.val.v[5], r.val.v[6], r.val.v[7]))

\* The proleptic Gregorian date of day number z (days since 1970-01-01).
CivilFromDays(z) ==
    LET z1 == z + 719468
        era == z1 \div 146097
        doe == z1 - era * 146097
        yoe == (doe - doe \div 1460 + doe \div 36524 - doe \div 146096) \div 365
        doy == doe - (365 * yoe + yoe \div 4 - yoe \div 100)
        mp == (5 * doy + 2) \div 153
        d == doy - (153 * mp + 2) \div 5 + 1
        m == IF mp < 10 THEN mp + 3 ELSE mp - 9
        y == yoe + era * 400 + (IF m <= 2 THEN 1 ELSE 0)
    IN <<y, m, d>>

\* google.cloud._helpers._datetime_from_microseconds:
\* _EPOCH + datetime.timedelta(microseconds=value), an aware UTC datetime.
_datetime_from_microseconds(n) ==
    LET secs == n \div 1000000
        us == n % 1000000
        days == secs \div 86400
        sod == secs % 86400
        ymd == CivilFromDays(days)
    IN PyDatetime(ymd[1], ymd[2], ymd[3], sod \div 3600, (sod % 3600) \div 60,
                  sod % 60, us, "UTC")

(***************************************************************************)
(* Builtins and library calls the decoders make, by what they do to a      *)
(* text over WireChars (which has no ".", "e", "_", "=" or white space, so *)
(* that a numeric literal is an optionally signed run of digits).          *)
(***************************************************************************)
\* int(x)
py_int(x) ==
    CASE IsNone(x) -> Raise("TypeError")
      [] x.t = "int" -> Return(x)
      [] IsStr(x) -> IF IsIntLiteral(x.v)
                     THEN Return(PyInt(IntLiteralValue(x.v)))
                     ELSE Raise("ValueError")
      [] OTHER -> Raise("TypeError")

\* float(x)
py_float(x) ==
    CASE IsNone(x) -> Raise("TypeError")
      [] x.t = "int" -> Return(PyFloat(x.v))
      [] x.t = "bool" -> Return(PyFloat(IF x.v THEN 1 ELSE 0))
      [] x.t = "float" -> Return(x)
      [] x.t = "Decimal" -> Return(PyFloat(x.v))
      [] IsStr(x) -> IF IsIntLiteral(x.v)
                     THEN Return(PyFloat(IntLiteralValue(x.v)))
                     ELSE Raise("ValueError")
      [] OTHER -> Raise("TypeError")

\* decimal.Decimal(x)
py_Decimal(x) ==
    CASE IsNone(x) -> Raise("TypeError")
      [] x.t = "int" -> Return(PyDecimal(x.v))
      [] IsStr(x) -> IF IsIntLiteral(x.v)
                     THEN Return(PyDecimal(IntLiteralValue(x.v)))
                     ELSE Raise("InvalidOperation")
      [] OTHER -> Raise("TypeError")

\* len(x)
py_len(x) ==
    IF x.t \in {"str", "list", "tuple", "bytes"} THEN Return(PyInt(Len(x.v)))
    ELSE IF IsDict(x) THEN Return(PyInt(Cardinality(DOMAIN x.v)))
    ELSE Raise("TypeError")

\* x[key]
Subscript(x, key) ==
    CASE IsDict(x) -> IF HasKey(x, key) THEN Return(x.v[key]) ELSE Raise("KeyError")
      [] OTHER -> Raise("TypeError")

B64Alphabet ==
    <<"A", "B", "C", "D", "E", "F", "G", "H", "I", "J", "K", "L", "M", "N", "O", "P",
      "Q", "R", "S", "T", "U", "V", "W", "X", "Y", "Z", "a", "b", "c", "d", "e", "f",
      "g", "h", "i", "j", "k", "l", "m", "n", "o", "p", "q", "r", "s", "t", "u", "v",
      "w", "x", "y", "z", "0", "1", "2", "3", "4", "5", "6", "7", "8", "9", "+", "/">>

B64Chars == {B64Alphabet[i] : i \in 1..64}
B64Index(c) == (CHOOSE i \in 1..64 : B64Alphabet[i] = c) - 1

\* The octets of whole groups of four base64 characters.
RECURSIVE B64Quads(_)
B64Quads(s) ==
    IF Len(s) < 4 THEN <<>>
    ELSE LET n == B64Index(s[1]) * 262144 + B64Index(s[2]) * 4096
                  + B64Index(s[3]) * 64 + B64Index(s[4])
         IN <<n \div 65536, (n \div 256) % 256, n % 256>>
            \o B64Quads(SubSeq(s, 5, Len(s)))

\* base64.standard_b64decode(_to_bytes(x)): _to_bytes raises TypeError for
\* what is neither str nor bytes; the decoder skips the characters outside
\* the alphabet and raises binascii.Error on an incomplete group.
standard_b64decode(x) ==
    IF ~IsStr(x) THEN Raise("TypeError")
    ELSE LET data == SelectSeq(x.v, LAMBDA c : c \in B64Chars) IN
         IF Len(data) % 4 = 0 THEN Return(PyBytes(B64Quads(data)))
         ELSE Raise("binascii.Error")

(***************************************************************************)
(* _INTERVAL_PATTERN and dateutil's relativedelta.                         *)
(***************************************************************************)
\* The position after the run of digits that starts at pos.
RECURSIVE DigitsEnd(_, _)
DigitsEnd(s, pos) ==
    IF pos <= Len(s) /\ s[pos] \in Digits THEN DigitsEnd(s, pos + 1) ELSE pos

CharAt(s, pos) == IF pos \in 1..Len(s) THEN s[pos] ELSE ""

\* The position after an optional "-" at pos.
SignEnd(s, pos) == IF CharAt(s, pos) = "-" THEN pos + 1 ELSE pos

\* _INTERVAL_PATTERN.match(s): the groups of the match, or ok = FALSE.
_INTERVAL_PATTERN(s) ==
    LET y0 == SignEnd(s, 1)
        y1 == DigitsEnd(s, y0)
        m1 == DigitsEnd(s, y1 + 1)
        d0 == SignEnd(s, m1 + 1)
        d1 == DigitsEnd(s, d0)
        h0 == SignEnd(s, d1 + 1)
        h1 == DigitsEnd(s, h0)
        n1 == DigitsEnd(s, h1 + 1)
        s1 == DigitsEnd(s, n1 + 1)
        f0 == IF CharAt(s, s1) = "." THEN s1 + 1 ELSE s1
        f1 == DigitsEnd(s, f0)
        ok == /\ y1 > y0 /\ CharAt(s, y1) = "-"
              /\ m1 > y1 + 1 /\ CharAt(s, m1) = " "
              /\ d1 > d0 /\ CharAt(s, d1) = " "
              /\ h1 > h0 /\ CharAt(s, h1) = ":"
              /\ n1 > h1 + 1 /\ CharAt(s, n1) = ":"
              /\ s1 > n1 + 1
              \* "$": the end of the text, or just before a final newline
              /\ \/ f1 = Len(s) + 1
                 \/ f1 = Len(s) /\ s[f1] = "\n"
    IN IF ~ok THEN [ok |-> FALSE]
       ELSE [ok |-> TRUE,
             calendar_sign |-> SubSeq(s, 1, y0 - 1),
             years |-> SubSeq(s, y0, y1 - 1),
             months |-> SubSeq(s, y1 + 1, m1 - 1),
             days |-> SubSeq(s, m1 + 1, d1 - 1),
             time_sign |-> SubSeq(s, d1 + 1, h0 - 1),
             hours |-> SubSeq(s, h0, h1 - 1),
             minutes |-> SubSeq(s, h1 + 1, n1 - 1),
             seconds |-> SubSeq(s, n1 + 1, s1 - 1),
             fraction |-> SubSeq(s, f0, f1 - 1)]

Abs(n) == IF n < 0 THEN 0 - n ELSE n
Sign(n) == IF n < 0 THEN 0 - 1 ELSE 1
\* Python's divmod(abs(n), b) given back with n's sign, as relativedelta does.
CarryDiv(n, b) == Sign(n) * (Abs(n) \div b)
CarryMod(n, b) == Sign(n) * (Abs(n) % b)

\* dateutil.relativedelta.relativedelta(years=..., ...): the constructor
\* ends with _fix(), which carries an overflowing unit into the next one.
relativedelta(years, months, days, hours, minutes, seconds, microseconds) ==
    LET us == IF Abs(microseconds) > 999999 THEN CarryMod(microseconds, 1000000)
              ELSE microseconds
        s0 == IF Abs(microseconds) > 999999
              THEN seconds + CarryDiv(microseconds, 1000000) ELSE seconds
        s == IF Abs(s0) > 59 THEN CarryMod(s0, 60) ELSE s0
        mi0 == IF Abs(s0) > 59 THEN minutes + CarryDiv(s0, 60) ELSE minutes
        mi == IF Abs(mi0) > 59 THEN CarryMod(mi0, 60) ELSE mi0
        h0 == IF Abs(mi0) > 59 THEN hours + CarryDiv(mi0, 60) ELSE hours
        h == IF Abs(h0) > 23 THEN CarryMod(h0, 24) ELSE h0
        d == IF Abs(h0) > 23 THEN days + CarryDiv(h0, 24) ELSE days
        mo == IF Abs(months) > 11 THEN CarryMod(months, 12) ELSE months
        y == IF Abs(months) > 11 THEN years + CarryDiv(months, 12) ELSE years
    IN [t |-> "relativedelta", v |-> <<y, mo, d, h, mi, s, us>>]

(***************************************************************************)
(* The decoder: _not_null, the converters and _CELLDATA_FROM_JSON.         *)
(***************************************************************************)
\* A SchemaField, as far as this module reads it; NoField is field=None.
SchemaField(name, field_type, mode, fields) ==
    [name |-> name, field_type |-> field_type, mode |-> mode, fields |-> fields]
NoField == [t |-> "None"]

\* Mutants of _not_null: one that forgets the mode, one that forgets the field.
_not_null_ignores_mode(value, field) == ~IsNone(value) \/ field # NoField
_not_null_value_only(value, field) == ~IsNone(value)

_not_null(value, field) ==
    ~IsNone(value) \/ (field # NoField /\ field.mode # "NULLABLE")

_int_from_json(value, field) ==
    IF _not_null(value, field) THEN py_int(value) ELSE Return(None)

\* A mutant of _interval_from_json that gives the calendar sign to every
\* component.
_interval_from_json_one_sign(value, field) ==
    IF ~_not_null(value, field) THEN Return(None)
    ELSE IF IsNone(value) THEN Raise("TypeError")
    ELSE IF ~IsStr(value) THEN Raise("TypeError")
    ELSE LET parsed == _INTERVAL_PATTERN(value.v) IN
         IF ~parsed.ok THEN Raise("ValueError")
         ELSE LET calendar_sign == IF parsed.calendar_sign = <<"-">> THEN 0 - 1 ELSE 1
                  years == calendar_sign * DecimalValue(parsed.years)
                  months == calendar_sign * DecimalValue(parsed.months)
                  days == calendar_sign * IntLiteralValue(parsed.days)
                  time_sign == calendar_sign
                  hours == time_sign * DecimalValue(parsed.hours)
                  minutes == time_sign * DecimalValue(parsed.minutes)
                  seconds == time_sign * DecimalValue(parsed.seconds)
                  fraction == parsed.fraction
                  microseconds ==
                      IF Len(fraction) > 0
                      THEN time_sign
                           * DecimalValue(SubSeq(RightPad(fraction, 6), 1, 6))
                      ELSE 0
              IN Return(relativedelta(years, months, days, hours, minutes,
                                      seconds, microseconds))

_interval_from_json(value, field) ==
    IF ~_not_null(value, field) THEN Return(None)
    ELSE IF IsNone(value) THEN Raise("TypeError")
    ELSE IF ~IsStr(value) THEN Raise("TypeError")
    ELSE LET parsed == _INTERVAL_PATTERN(value.v) IN
         IF ~parsed.ok THEN Raise("ValueError")
         ELSE LET calendar_sign == IF parsed.calendar_sign = <<"-">> THEN 0 - 1 ELSE 1
                  years == calendar_sign * DecimalValue(parsed.years)
                  months == calendar_sign * DecimalValue(parsed.months)
                  days == IntLiteralValue(parsed.days)
                  time_sign == IF parsed.time_sign = <<"-">> THEN 0 - 1 ELSE 1
                  hours == time_sign * DecimalValue(parsed.hours)
                  minutes == time_sign * DecimalValue(parsed.minutes)
                  seconds == time_sign * DecimalValue(parsed.seconds)
                  fraction == parsed.fraction
                  microseconds ==
                      IF Len(fraction) > 0
                      THEN time_sign
                           * DecimalValue(SubSeq(RightPad(fraction, 6), 1, 6))
                      ELSE 0
              IN Return(relativedelta(years, months, days, hours, minutes,
                                      seconds, microseconds))

_float_from_json(value, field) ==
    IF _not_null(value, field) THEN py_float(value) ELSE Return(None)

_decimal_from_json(value, field) ==
    IF _not_null(value, field) THEN py_Decimal(value) ELSE Return(None)

\* value.lower() in ["t", "true", "1"]; None has no attribute lower.
_bool_from_json(value, field) ==
    IF _not_null(value, field)
    THEN IF IsStr(value)
         THEN Return(PyBool(Lower(value.v) \in
                               {<<"t">>, <<"t", "r", "u", "e">>, <<"1">>}))
         ELSE Raise("AttributeError")
    ELSE Return(None)

_string_from_json(value, field) == Return(value)

_bytes_from_json(value, field) ==
    IF _not_null(value, field) THEN standard_b64decode(value) ELSE Return(None)

_timestamp_from_json(value, field) ==
    IF _not_null(value, field)
    THEN LET n == py_int(value) IN
         IF Raised(n) THEN n ELSE Return(_datetime_from_microseconds(n.val.v))
    ELSE Return(None)

\* "." in value raises TypeError when value is None.
_datetime_from_json(value, field) ==
    IF _not_null(value, field)
    THEN IF ~IsStr(value) THEN Raise("TypeError")
         ELSE IF \E i \in 1..Len(value.v) : value.v[i] = "."
         THEN strptime(value, _RFC3339_MICROS_NO_ZULU)
         ELSE strptime(value, _RFC3339_NO_FRACTION)
    ELSE Return(None)

_date_from_json(value, field) ==
    IF _not_null(value, field) THEN DateOf(strptime(value, IsoDateFormat))
    ELSE Return(None)

\* ValueError("Unknown time format: {}".format(value))
UnknownTimeFormat(value) ==
    [kind |-> "raise", exc |-> "ValueError",
     msg |-> [template |-> "Unknown time format: {}", args |-> <<value>>]]

\* A mutant of _time_from_json that chooses the format as
\* _datetime_from_json does, by the "." in the text.
_time_from_json_by_dot(value, field) ==
    IF _not_null(value, field)
    THEN IF ~IsStr(value) THEN Raise("TypeError")
         ELSE IF \E i \in 1..Len(value.v) : value.v[i] = "."
         THEN TimeOf(strptime(value, _TIMEONLY_W_MICROS))
         ELSE TimeOf(strptime(value, _TIMEONLY_WO_MICROS))
    ELSE Return(None)

_time_from_json(value, field) ==
    IF _not_null(value, field)
    THEN LET n == py_len(value) IN
         IF Raised(n) THEN n
         ELSE IF n.val.v = 8 THEN TimeOf(strptime(value, _TIMEONLY_WO_MICROS))
         ELSE IF n.val.v = 15 THEN TimeOf(strptime(value, _TIMEONLY_W_MICROS))
         ELSE UnknownTimeFormat(value)
    ELSE Return(None)

\* The keys of _CELLDATA_FROM_JSON.
ScalarTypes ==
    {"INTEGER", "INT64", "INTERVAL", "FLOAT", "FLOAT64", "NUMERIC", "BIGNUMERIC",
     "BOOLEAN", "BOOL", "STRING", "GEOGRAPHY", "BYTES", "TIMESTAMP", "DATETIME",
     "DATE", "TIME"}
DecoderTypes == ScalarTypes \cup {"RECORD"}

K_f == <<"f">>
K_v == <<"v">>

\* The items a for loop or zip() draws from x: ok = FALSE when x is not
\* iterable (TypeError).
\* (A dict iterates over its keys in insertion order, which a function does
\* not carry: only a dict of at most one key is iterated.)
Iterate(x) ==
    CASE x.t \in {"list", "tuple"} -> [ok |-> TRUE, items |-> x.v]
      [] IsStr(x) -> [ok |-> TRUE, items |-> [i \in 1..Len(x.v) |-> PyStr(<<x.v[i]>>)]]
      [] IsDict(x) /\ Cardinality(DOMAIN x.v) <= 1 ->
            [ok |-> TRUE,
             items |-> IF DOMAIN x.v = {} THEN <<>>
                       ELSE <<PyStr(CHOOSE k \in DOMAIN x.v : TRUE)>>]
      [] x.t = "bytes" -> [ok |-> TRUE, items |-> [i \in 1..Len(x.v) |-> PyInt(x.v[i])]]
      [] x.t \in {"None", "int", "bool", "float", "Decimal", "date", "time",
                  "datetime", "relativedelta"} ->
            [ok |-> FALSE, items |-> <<>>]

Min(a, b) == IF a < b THEN a ELSE b

RECURSIVE _CELLDATA_FROM_JSON(_, _, _)
RECURSIVE ConvertItems(_, _, _, _, _)
RECURSIVE RecordCells(_, _, _, _)
RECURSIVE _record_from_json(_, _)

\* [converter(item["v"], field) for item in items], from item i on, acc being
\* the list so far; the first exception ends it.
ConvertItems(field_type, field, items, i, acc) ==
    IF i > Len(items) THEN Return(PyList(acc))
    ELSE LET v == Subscript(items[i], K_v) IN
         IF Raised(v) THEN v
         ELSE LET r == _CELLDATA_FROM_JSON(field_type, v.val, field) IN
              IF Raised(r) THEN r
              ELSE ConvertItems(field_type, field, items, i + 1, Append(acc, r.val))

\* The loop of _record_from_json over zip(field.fields, value["f"]), from
\* pair i on, record being the mapping so far.
RecordCells(fields, cells, i, record) ==
    IF i > Min(Len(fields), Len(cells)) THEN Return(PyDict(record))
    ELSE LET subfield == fields[i]
             cell == cells[i]
             cv == Subscript(cell, K_v)
         IN IF subfield.field_type \notin DecoderTypes THEN Raise("KeyError")
            ELSE IF Raised(cv) THEN cv
            ELSE LET r == IF subfield.mode = "REPEATED"
                          THEN LET it == Iterate(cv.val) IN
                               IF it.ok
                               THEN ConvertItems(subfield.field_type, subfield,
                                                 it.items, 1, <<>>)
                               ELSE Raise("TypeError")
                          ELSE _CELLDATA_FROM_JSON(subfield.field_type, cv.val,
                                                   subfield)
                 IN IF Raised(r) THEN r
                    ELSE RecordCells(fields, cells, i + 1,
                            [k \in DOMAIN record \cup {subfield.name} |->
                                IF k = subfield.name THEN r.val ELSE record[k]])

_record_from_json(value, field) ==
    IF _not_null(value, field)
    THEN IF field = NoField THEN Raise("AttributeError")
         ELSE LET f == Subscript(value, K_f) IN
              IF Raised(f) THEN f
              ELSE LET it == Iterate(f.val) IN
                   IF it.ok THEN RecordCells(field.fields, it.items, 1, <<>>)
                   ELSE Raise("TypeError")
    ELSE Return(None)

\* _CELLDATA_FROM_JSON[field_type](value, field)
_CELLDATA_FROM_JSON(field_type, value, field) ==
    CASE field_type \in {"INTEGER", "INT64"} -> _int_from_json(value, field)
      [] field_type = "INTERVAL" -> _interval_from_json(value, field)
      [] field_type \in {"FLOAT", "FLOAT64"} -> _float_from_json(value, field)
      [] field_type \in {"NUMERIC", "BIGNUMERIC"} -> _decimal_from_json(value, field)
      [] field_type \in {"BOOLEAN", "BOOL"} -> _bool_from_json(value, field)
      [] field_type \in {"STRING", "GEOGRAPHY"} -> _string_from_json(value, field)
      [] field_type = "BYTES" -> _bytes_from_json(value, field)
      [] field_type = "TIMESTAMP" -> _timestamp_from_json(value, field)
      [] field_type = "DATETIME" -> _datetime_from_json(value, field)
      [] field_type = "DATE" -> _date_from_json(value, field)
      [] field_type = "TIME" -> _time_from_json(value, field)
      [] field_type = "RECORD" -> _record_from_json(value, field)

\* _CELLDATA_FROM_JSON.get(field.field_type, lambda value, _: value)
_field_from_json(resource, field) ==
    IF field.mode = "REPEATED"
    THEN LET it == Iterate(resource) IN
         IF ~it.ok THEN Raise("TypeError")
         ELSE IF field.field_type \in DecoderTypes
         THEN ConvertItems(field.field_type, field, it.items, 1, <<>>)
         ELSE LET vs == [i \in 1..Len(it.items) |-> Subscript(it.items[i], K_v)] IN
              IF \E i \in 1..Len(vs) : Raised(vs[i])
              THEN vs[CHOOSE i \in 1..Len(vs) :
                         Raised(vs[i]) /\ \A j \in 1..(i - 1) : Returned(vs[j])]
              ELSE Return(PyList([i \in 1..Len(vs) |-> vs[i].val]))
    ELSE IF field.field_type \in DecoderTypes
    THEN _CELLDATA_FROM_JSON(field.field_type, resource, field)
    ELSE Return(resource)

(***************************************************************************)
(* The decoder's calls: the inputs they are given, and the actions.        *)
(***************************************************************************)
Modes == {"NULLABLE", "REQUIRED", "REPEATED"}

WireChars == {"1", "2", "-", "T", "x"}

\* What a scalar cell holds on the wire: null or a text.
DecWireValues == {None} \cup {PyStr(s) : s \in Texts(WireChars, 0, MaxWireLen)}

\* {"v": v} and {"f": [cell, ...]}
WireCell(v) == PyDict([k \in {K_v} |-> v])
WireRecord(cells) == PyDict([k \in {K_f} |-> PyList(cells)])

CellSamples ==
    {WireCell(v) : v \in {None, PyStr(<<"1">>), PyStr(<<"x">>),
                          PyList(<<WireCell(PyStr(<<"1">>))>>),
                          PyList(<<WireCell(None)>>)}}

CellLists == {<<>>} \cup {<<c>> : c \in CellSamples}
                 \cup {<<c, d>> : c \in CellSamples, d \in CellSamples}

RecordWireValues == {None} \cup {WireRecord(cs) : cs \in CellLists}

\* What a REPEATED field holds on the wire: a list of {"v": item}.
RepeatedWireValues ==
    {None} \cup {PyList(cs) : cs \in
        {<<>>} \cup {<<WireCell(v)>> : v \in {None, PyStr(<<"1">>), PyStr(<<"x">>)}}
               \cup {<<WireCell(v), WireCell(w)>> :
                        v \in {None, PyStr(<<"1">>)}, w \in {None, PyStr(<<"x">>)}}}

N_a == <<"a">>
N_b == <<"b">>
N_r == <<"r">>

SubfieldLists ==
    { <<>>,
      <<SchemaField(N_a, "INTEGER", "NULLABLE", <<>>)>>,
      <<SchemaField(N_a, "INTEGER", "REQUIRED", <<>>),
        SchemaField(N_b, "STRING", "NULLABLE", <<>>)>>,
      <<SchemaField(N_a, "BOOLEAN", "REPEATED", <<>>)>> }

\* The fields of a logical type, and the wire values the type is given.
FieldsOfType(field_type) ==
    IF field_type = "RECORD"
    THEN {SchemaField(N_r, "RECORD", m, fs) : m \in Modes, fs \in SubfieldLists}
    ELSE {SchemaField(N_a, field_type, m, <<>>) : m \in Modes}

WireValuesOfType(field_type) ==
    IF field_type = "RECORD" THEN RecordWireValues ELSE DecWireValues

\* A type with no entry in _CELLDATA_FROM_JSON.
UnknownType == "JSON"

Pending == [kind |-> "pending"]

\* The arguments of a call of a table converter: a type, a field of that
\* type (or no field) and a wire value.
CellInputs ==
    UNION {{<<field_type, field, value>> :
               field \in FieldsOfType(field_type) \cup {NoField},
               value \in WireValuesOfType(field_type)} :
           field_type \in DecoderTypes}

\* The arguments of a call of _field_from_json.
FieldInputs ==
    UNION {UNION {{<<field_type, field, resource>> :
                      resource \in IF field.mode = "REPEATED"
                                   THEN RepeatedWireValues
                                   ELSE WireValuesOfType(field_type)} :
                  field \in FieldsOfType(field_type)} :
           field_type \in DecoderTypes \cup {UnknownType}}

\* A caller applies the table's converter of dec_type to the wire value and
\* the field.
DecodeCell ==
    /\ dec_op = "none"
    /\ <<dec_type, dec_field, dec_value>> \in CellInputs
    /\ dec_op' = "_CELLDATA_FROM_JSON"
    /\ dec_result' = _CELLDATA_FROM_JSON(dec_type, dec_value, dec_field)
    /\ UNCHANGED <<dec_type, dec_field, dec_value>>
    /\ UNCHANGED <<enc_vars, id_vars, nested_vars, ver_vars>>

\* _field_from_json(resource, field)
FieldFromJson ==
    /\ dec_op = "none"
    /\ <<dec_type, dec_field, dec_value>> \in FieldInputs
    /\ dec_op' = "_field_from_json"
    /\ dec_result' = _field_from_json(dec_value, dec_field)
    /\ UNCHANGED <<dec_type, dec_field, dec_value>>
    /\ UNCHANGED <<enc_vars, id_vars, nested_vars, ver_vars>>

InitDecode ==
    /\ dec_op = "none"
    /\ dec_result = Pending
    /\ \E input \in CellInputs \cup FieldInputs :
        /\ dec_type = input[1]
        /\ dec_field = input[2]
        /\ dec_value = input[3]
    /\ EncodeIdle /\ IdIdle /\ NestedIdle /\ VersionIdle

NextDecode ==
    \/ DecodeCell
    \/ FieldFromJson

SpecDecode == InitDecode /\ [][NextDecode]_vars

(***************************************************************************)
(* Claims about the decoder.                                               *)
(***************************************************************************)
NullCellCall ==
    /\ dec_op = "_CELLDATA_FROM_JSON"
    /\ IsNone(dec_value)
    /\ dec_field # NoField

\* C1 as written: for every type of the decoder table and every field whose
\* mode is not REQUIRED (NULLABLE and REPEATED alike), decoding a null wire
\* value returns None and raises nothing.
C1_NullNotRequiredReturnsNone ==
    (NullCellCall /\ dec_field.mode # "REQUIRED") => dec_result = Return(None)

\* C1 as amended: for every type of the decoder table, decoding a null wire
\* value returns None for a NULLABLE field; for a REPEATED field it returns
\* None only for STRING and GEOGRAPHY and raises for every other type.
C1_NullNullableReturnsNone ==
    NullCellCall =>
        /\ dec_field.mode = "NULLABLE" => dec_result = Return(None)
        /\ dec_field.mode = "REPEATED" =>
              IF dec_type \in {"STRING", "GEOGRAPHY"}
              THEN dec_result = Return(None)
              ELSE Raised(dec_result)

C1_Witness ==
    /\ NullCellCall
    /\ dec_field.mode = "NULLABLE"
    /\ dec_type = "TIMESTAMP"
    /\ dec_result = Return(None)

\* C2 as written: for every scalar type of the decoder table, decoding a
\* null wire value against a REQUIRED field ends in a type error and never
\* returns a value.
C2_NullRequiredRaisesTypeError ==
    (NullCellCall /\ dec_type \in ScalarTypes /\ dec_field.mode = "REQUIRED")
        => dec_result = Raise("TypeError")

\* C2 as amended: decoding a null wire value against a REQUIRED field raises
\* TypeError for every scalar type except BOOLEAN and BOOL, which raise
\* AttributeError, and STRING and GEOGRAPHY, which return None.
C2_NullRequiredOutcome ==
    (NullCellCall /\ dec_type \in ScalarTypes /\ dec_field.mode = "REQUIRED")
        => dec_result =
              CASE dec_type \in {"STRING", "GEOGRAPHY"} -> Return(None)
                [] dec_type \in {"BOOLEAN", "BOOL"} -> Raise("AttributeError")
                [] OTHER -> Raise("TypeError")

C2_Witness ==
    /\ NullCellCall
    /\ dec_field.mode = "REQUIRED"
    /\ dec_type = "INTERVAL"
    /\ dec_result = Raise("TypeError")

(***************************************************************************)
(* str(), repr() and the formatting calls the encoder makes.               *)
(***************************************************************************)
DigitChar(d) ==
    CASE d = 0 -> "0" [] d = 1 -> "1" [] d = 2 -> "2" [] d = 3 -> "3"
      [] d = 4 -> "4" [] d = 5 -> "5" [] d = 6 -> "6" [] d = 7 -> "7"
      [] d = 8 -> "8" [] d = 9 -> "9"

\* The decimal digits of a natural number, and of an integer.
RECURSIVE NatText(_)
NatText(n) ==
    IF n < 10 THEN <<DigitChar(n)>> ELSE NatText(n \div 10) \o <<DigitChar(n % 10)>>

IntText(n) == IF n < 0 THEN <<"-">> \o NatText(0 - n) ELSE NatText(n)

\* n in at least w digits, zero-filled on the left ("%02d").
RECURSIVE ZeroFill(_, _)
ZeroFill(text, w) == IF Len(text) >= w THEN text ELSE ZeroFill(<<"0">> \o text, w)
Pad(n, w) == ZeroFill(NatText(n), w)

RECURSIVE JoinTexts(_, _)
JoinTexts(texts, sep) ==
    IF Len(texts) = 0 THEN <<>>
    ELSE IF Len(texts) = 1 THEN texts[1]
    ELSE texts[1] \o sep \o JoinTexts(Tail(texts), sep)

\* repr(x) and str(x), as texts.  (A text of the model holds no quote and
\* no backslash; the repr of a dict follows its insertion order, so only a
\* dict of at most one key has one here.)
RECURSIVE py_repr(_)
py_repr(x) ==
    CASE IsNone(x) -> <<"N", "o", "n", "e">>
      [] x.t = "int" -> IntText(x.v)
      [] x.t = "bool" -> IF x.v THEN <<"T", "r", "u", "e">>
                         ELSE <<"F", "a", "l", "s", "e">>
      [] x.t = "float" -> IntText(x.v) \o <<".", "0">>
      [] IsStr(x) -> <<"'">> \o x.v \o <<"'">>
      [] x.t = "list" ->
            <<"[">> \o JoinTexts([i \in 1..Len(x.v) |-> py_repr(x.v[i])], <<",", " ">>)
                    \o <<"]">>
      [] x.t = "tuple" ->
            <<"(">> \o JoinTexts([i \in 1..Len(x.v) |-> py_repr(x.v[i])], <<",", " ">>)
                    \o (IF Len(x.v) = 1 THEN <<",", ")">> ELSE <<")">>)
      [] IsDict(x) /\ Cardinality(DOMAIN x.v) <= 1 ->
            IF DOMAIN x.v = {} THEN <<"{", "}">>
            ELSE LET k == CHOOSE k \in DOMAIN x.v : TRUE IN
                 <<"{">> \o py_repr(PyStr(k)) \o <<":", " ">> \o py_repr(x.v[k])
                         \o <<"}">>

py_str(x) ==
    CASE IsStr(x) -> x.v
      [] x.t = "Decimal" -> IntText(x.v)
      [] OTHER -> py_repr(x)

\* base64.standard_b64encode(octets).decode("ascii")
RECURSIVE B64Encode(_)
B64Encode(b) ==
    IF Len(b) = 0 THEN <<>>
    ELSE LET b2 == IF Len(b) >= 2 THEN b[2] ELSE 0
             b3 == IF Len(b) >= 3 THEN b[3] ELSE 0
             n == b[1] * 65536 + b2 * 256 + b3
             c(i) == B64Alphabet[i + 1]
         IN <<c(n \div 262144), c((n \div 4096) % 64)>>
            \o (IF Len(b) >= 2 THEN <<c((n \div 64) % 64)>> ELSE <<"=">>)
            \o (IF Len(b) >= 3 THEN <<c(n % 64)>> ELSE <<"=">>)
            \o (IF Len(b) > 3 THEN B64Encode(SubSeq(b, 4, Len(b))) ELSE <<>>)

\* date.isoformat(), time.isoformat()
DateIso(y, mo, d) == Pad(y, 4) \o <<"-">> \o Pad(mo, 2) \o <<"-">> \o Pad(d, 2)
TimeIso(h, mi, sec, us) ==
    Pad(h, 2) \o <<":">> \o Pad(mi, 2) \o <<":">> \o Pad(sec, 2)
        \o (IF us # 0 THEN <<".">> \o Pad(us, 6) ELSE <<>>)

\* datetime.strftime("%Y-%m-%dT%H:%M:%S.%f"): the C library's %Y does not
\* zero-fill a year below 1000.
StrftimeMicros(dt) ==
    NatText(dt[1]) \o <<"-">> \o Pad(dt[2], 2) \o <<"-">> \o Pad(dt[3], 2) \o <<"T">>
        \o Pad(dt[4], 2) \o <<":">> \o Pad(dt[5], 2) \o <<":">> \o Pad(dt[6], 2)
        \o <<".">> \o Pad(dt[7], 6)

(***************************************************************************)
(* The encoder: the scalar converters and _SCALAR_VALUE_TO_JSON_ROW.       *)
(***************************************************************************)
\* isinstance(value, int) holds of a bool as well.
_int_to_json(value) ==
    IF value.t \in {"int", "bool"} THEN Return(PyStr(py_str(value)))
    ELSE Return(value)

\* math.isnan() raises TypeError for what is no number.  (The floats of the
\* model are finite.)
_float_to_json(value) ==
    IF IsNone(value) THEN Return(None)
    ELSE LET f == IF IsStr(value) THEN py_float(value) ELSE Return(value) IN
         IF Raised(f) THEN f
         ELSE IF f.val.t \in {"int", "bool", "float", "Decimal"} THEN py_float(f.val)
         ELSE Raise("TypeError")

_decimal_to_json(value) ==
    IF value.t = "Decimal" THEN Return(PyStr(py_str(value))) ELSE Return(value)

_bool_to_json(value) ==
    IF value.t = "bool"
    THEN Return(PyStr(IF value.v THEN <<"t", "r", "u", "e">>
                      ELSE <<"f", "a", "l", "s", "e">>))
    ELSE Return(value)

_bytes_to_json(value) ==
    IF value.t = "bytes" THEN Return(PyStr(B64Encode(value.v))) ELSE Return(value)

\* value.astimezone(UTC) leaves a UTC datetime as it is; a naive one is
\* formatted directly.
_timestamp_to_json_row(value) ==
    IF value.t = "datetime" THEN Return(PyStr(StrftimeMicros(value.v) \o <<"Z">>))
    ELSE Return(value)

_datetime_to_json(value) ==
    IF value.t = "datetime" THEN Return(PyStr(StrftimeMicros(value.v)))
    ELSE Return(value)

\* isinstance(value, datetime.date) holds of a datetime as well, whose
\* isoformat() is the date, "T" and the time.
_date_to_json(value) ==
    IF value.t = "date" THEN Return(PyStr(DateIso(value.v[1], value.v[2], value.v[3])))
    ELSE IF value.t = "datetime"
    THEN Return(PyStr(DateIso(value.v[1], value.v[2], value.v[3]) \o <<"T">>
                      \o TimeIso(value.v[4], value.v[5], value.v[6], value.v[7])
                      \o (IF value.tz = "UTC" THEN <<"+", "0", "0", ":", "0", "0">>
                          ELSE <<>>)))
    ELSE Return(value)

_time_to_json(value) ==
    IF value.t = "time"
    THEN Return(PyStr(TimeIso(value.v[1], value.v[2], value.v[3], value.v[4])))
    ELSE Return(value)

\* The keys of _SCALAR_VALUE_TO_JSON_ROW.
RowConverterTypes ==
    {"INTEGER", "INT64", "FLOAT", "FLOAT64", "NUMERIC", "BIGNUMERIC", "BOOLEAN",
     "BOOL", "BYTES", "TIMESTAMP", "DATETIME", "DATE", "TIME", "DECIMAL",
     "BIGDECIMAL"}

\* The name of the converter _SCALAR_VALUE_TO_JSON_ROW holds for a type.
RowConverterName(field_type) ==
    CASE field_type \in {"INTEGER", "INT64"} -> "_int_to_json"
      [] field_type \in {"FLOAT", "FLOAT64"} -> "_float_to_json"
      [] field_type \in {"NUMERIC", "BIGNUMERIC", "DECIMAL", "BIGDECIMAL"} ->
            "_decimal_to_json"
      [] field_type \in {"BOOLEAN", "BOOL"} -> "_bool_to_json"
      [] field_type = "BYTES" -> "_bytes_to_json"
      [] field_type = "TIMESTAMP" -> "_timestamp_to_json_row"
      [] field_type = "DATETIME" -> "_datetime_to_json"
      [] field_type = "DATE" -> "_date_to_json"
      [] field_type = "TIME" -> "_time_to_json"

\* _SCALAR_VALUE_TO_JSON_ROW[field_type](value)
_SCALAR_VALUE_TO_JSON_ROW(field_type, value) ==
    CASE field_type \in {"INTEGER", "INT64"} -> _int_to_json(value)
      [] field_type \in {"FLOAT", "FLOAT64"} -> _float_to_json(value)
      [] field_type \in {"NUMERIC", "BIGNUMERIC", "DECIMAL", "BIGDECIMAL"} ->
            _decimal_to_json(value)
      [] field_type \in {"BOOLEAN", "BOOL"} -> _bool_to_json(value)
      [] field_type = "BYTES" -> _bytes_to_json(value)
      [] field_type = "TIMESTAMP" -> _timestamp_to_json_row(value)
      [] field_type = "DATETIME" -> _datetime_to_json(value)
      [] field_type = "DATE" -> _date_to_json(value)
      [] field_type = "TIME" -> _time_to_json(value)

(***************************************************************************)
(* The encoder: _field_to_json and the functions it calls.  An outcome     *)
(* carries, in calls, the names of the functions the call went through.    *)
(***************************************************************************)
Ret(x, c) == [kind |-> "return", val |-> x, calls |-> c]
Err(e, c) == [kind |-> "raise", exc |-> e, calls |-> c]
\* The outcome r of a callee, seen from a caller that also made the calls c.
Called(c, r) == [r EXCEPT !.calls = @ \cup c]
\* The outcome of a scalar converter, as the outcome of the call named name.
Lift(name, r) == IF Returned(r) THEN Ret(r.val, {name}) ELSE Err(r.exc, {name})

\* x[i] for a position i (from 0) of a sequence value.
Index(x, i) ==
    CASE x.t \in {"list", "tuple"} -> x.v[i + 1]
      [] IsStr(x) -> PyStr(<<x.v[i + 1]>>)
      [] x.t = "bytes" -> PyInt(x.v[i + 1])

\* The message of the length check of _record_field_to_json.
ArityMessage(row_len, schema_len) ==
    [template |-> "The number of row fields ({}) does not match schema length ({}).",
     args |-> <<NatText(row_len), NatText(schema_len)>>]

\* len(row_value) != len(fields), and a mutant that misses the longer rows.
LengthMismatch_short_only(row_len, schema_len) == row_len < schema_len
LengthMismatch(row_len, schema_len) == row_len # schema_len

\* "if subvalue is not None": whether a declared subfield's value is
\* encoded; and a mutant that encodes the nulls too.
SubvalueKept_always(subvalue) == TRUE
SubvalueKept(subvalue) == ~IsNone(subvalue)

\* "if value is not None": whether an undeclared key is kept; and a mutant
\* that keeps the nulls too.
UnknownKept_always(value) == TRUE
UnknownKept(value) == ~IsNone(value)

_scalar_field_to_json(field, row_value) ==
    IF field.field_type \notin RowConverterTypes
    THEN Ret(row_value, {"_scalar_field_to_json"})
    ELSE Called({"_scalar_field_to_json"},
                Lift(RowConverterName(field.field_type),
                     _SCALAR_VALUE_TO_JSON_ROW(field.field_type, row_value)))

RECURSIVE _field_to_json(_, _)
RECURSIVE _single_field_to_json(_, _)
RECURSIVE _record_field_to_json(_, _)
RECURSIVE RepeatedItems(_, _, _, _, _)
RECURSIVE RecordSubfields(_, _, _, _, _)

\* The loop of _repeated_field_to_json from item i on: values is the list so
\* far and c the calls made so far.
RepeatedItems(field, items, i, values, c) ==
    IF i > Len(items) THEN Ret(PyList(values), c)
    ELSE LET r == _single_field_to_json(field, items[i]) IN
         IF Raised(r) THEN Called(c, r)
         ELSE RepeatedItems(field, items, i + 1, Append(values, r.val),
                            c \cup r.calls)

_repeated_field_to_json(field, row_value) ==
    LET it == Iterate(row_value) IN
    IF ~it.ok THEN Err("TypeError", {"_repeated_field_to_json"})
    ELSE RepeatedItems(field, it.items, 1, <<>>, {"_repeated_field_to_json"})

\* The loop of _record_field_to_json over enumerate(fields), from subfield i
\* on: record is the mapping so far and c the calls made so far.
RecordSubfields(fields, row_value, i, record, c) ==
    IF i > Len(fields) THEN Ret(PyDict(record), c)
    ELSE LET subfield == fields[i]
             subname == subfield.name
             subvalue == IF IsDict(row_value) THEN DictGet(row_value, subname)
                         ELSE Index(row_value, i - 1)
         IN IF ~SubvalueKept(subvalue)
            THEN RecordSubfields(fields, row_value, i + 1, record, c)
            ELSE LET r == _field_to_json(subfield, subvalue) IN
                 IF Raised(r) THEN Called(c, r)
                 ELSE RecordSubfields(fields, row_value, i + 1,
                         [k \in DOMAIN record \cup {subname} |->
                             IF k = subname THEN r.val ELSE record[k]],
                         c \cup r.calls)

_record_field_to_json(fields, row_value) ==
    LET isdict == IsDict(row_value)
        here == {"_record_field_to_json"}
        n == py_len(row_value)
    IN IF ~isdict /\ Raised(n) THEN Err(n.exc, here)
       ELSE IF ~isdict /\ LengthMismatch(n.val.v, Len(fields))
       THEN [kind |-> "raise", exc |-> "ValueError", calls |-> here,
             msg |-> ArityMessage(n.val.v, Len(fields))]
       ELSE LET declared == RecordSubfields(fields, row_value, 1, <<>>, here) IN
            IF Raised(declared) \/ ~isdict THEN declared
            ELSE LET processed_fields == {fields[i].name : i \in 1..Len(fields)}
                     not_processed == DOMAIN row_value.v \ processed_fields
                     kept == {k \in not_processed : UnknownKept(row_value.v[k])}
                     record == declared.val.v
                 IN Ret(PyDict([k \in DOMAIN record \cup kept |->
                                   IF k \in kept THEN PyStr(py_str(row_value.v[k]))
                                   ELSE record[k]]),
                        declared.calls)

_single_field_to_json(field, row_value) ==
    LET here == {"_single_field_to_json"} IN
    IF IsNone(row_value) THEN Ret(None, here)
    ELSE IF field.field_type = "RECORD"
    THEN Called(here, _record_field_to_json(field.fields, row_value))
    ELSE Called(here, _scalar_field_to_json(field, row_value))

\* A mutant of _field_to_json that looks at the mode before the value.
_field_to_json_mode_first(field, row_value) ==
    IF field.mode = "REPEATED" THEN _repeated_field_to_json(field, row_value)
    ELSE IF IsNone(row_value) THEN Ret(None, {})
    ELSE _single_field_to_json(field, row_value)

_field_to_json(field, row_value) ==
    IF IsNone(row_value) THEN Ret(None, {})
    ELSE IF field.mode = "REPEATED" THEN _repeated_field_to_json(field, row_value)
    ELSE _single_field_to_json(field, row_value)

(***************************************************************************)
(* The encoder's calls: the inputs they are given, and the actions.        *)
(***************************************************************************)
N_c == <<"c">>
\* A key no schema of the model declares.
N_m == <<"m">>

EncScalars == {None, PyInt(42), PyBool(TRUE), PyStr(<<"x">>)}

\* Subfield lists of a record, of zero to three subfields, with distinct
\* names as in every schema the service accepts.
EncSubfieldLists ==
    { <<>>,
      <<SchemaField(N_a, "INTEGER", "NULLABLE", <<>>)>>,
      <<SchemaField(N_a, "FLOAT", "NULLABLE", <<>>)>>,
      <<SchemaField(N_a, "INTEGER", "REQUIRED", <<>>),
        SchemaField(N_b, "STRING", "NULLABLE", <<>>)>>,
      <<SchemaField(N_a, "INTEGER", "NULLABLE", <<>>),
        SchemaField(N_b, "BOOLEAN", "REPEATED", <<>>),
        SchemaField(N_c, "RECORD", "NULLABLE",
                    <<SchemaField(N_a, "INTEGER", "NULLABLE", <<>>)>>)>> }

Dict1(k, x) == PyDict([j \in {k} |-> x])

\* A key's choices in a mapping input: Absent, or a value.
Absent == [t |-> "absent"]
ChoicesA == {Absent} \cup EncScalars
ChoicesB == {Absent, None, PyStr(<<"x">>), PyList(<<PyBool(TRUE)>>),
             PyList(<<None, PyBool(TRUE)>>)}
ChoicesC == {Absent, None, PyInt(42), PyTuple(<<PyInt(42)>>), Dict1(N_a, PyInt(42)),
             Dict1(N_a, None), Dict1(N_m, PyStr(<<"x">>))}
ChoicesM == {Absent} \cup EncScalars

DictOf(ca, cb, cc, cm) ==
    LET choice == [k \in {N_a, N_b, N_c, N_m} |->
                      CASE k = N_a -> ca [] k = N_b -> cb [] k = N_c -> cc
                        [] k = N_m -> cm]
    IN PyDict([k \in {j \in DOMAIN choice : choice[j] # Absent} |-> choice[k]])

MappingInputs ==
    {DictOf(ca, cb, cc, cm) :
        ca \in ChoicesA, cb \in ChoicesB, cc \in ChoicesC, cm \in ChoicesM}

\* Longest positional (tuple) input of the record encoder.
MaxTupleLen == 3

TupleItems == EncScalars \cup {PyList(<<PyBool(TRUE)>>), Dict1(N_a, PyInt(42))}

RECURSIVE SeqsOfLen(_, _)
SeqsOfLen(S, n) ==
    IF n = 0 THEN {<<>>} ELSE {<<x>> \o q : x \in S, q \in SeqsOfLen(S, n - 1)}

PositionalInputs ==
    {PyTuple(q) : q \in UNION {SeqsOfLen(TupleItems, n) : n \in 0..MaxTupleLen}}
        \cup {PyList(<<PyInt(42), None>>), PyStr(<<"x">>), PyStr(<<"x", "y">>)}

\* The arguments of a call of _record_field_to_json; an int has no len().
RecordInputs ==
    {<<fields, row_value>> :
        fields \in EncSubfieldLists,
        row_value \in MappingInputs \cup PositionalInputs \cup {PyInt(42)}}

\* The types and the native values of the scalar fields that are encoded.
EncScalarTypes == RowConverterTypes \cup {"STRING", "GEOGRAPHY", "INTERVAL"}

EncNatives ==
    EncScalars \cup
    {PyFloat(1), PyDecimal(7), PyBytes(<<104, 105>>), PyDate(2024, 2, 29),
     PyTime(12, 30, 0, 0), PyDatetime(2024, 2, 29, 12, 30, 0, 123456, "naive"),
     PyDatetime(1970, 1, 1, 0, 0, 0, 0, "UTC")}

EncLists ==
    {PyList(<<>>), PyList(<<PyInt(42)>>), PyList(<<None, PyBool(TRUE)>>),
     PyList(<<PyStr(<<"x">>)>>)}

RecordSamples ==
    {EmptyDict, DictOf(PyInt(42), Absent, Absent, PyStr(<<"x">>)),
     DictOf(None, Absent, Absent, None), PyTuple(<<>>), PyTuple(<<PyInt(42)>>),
     PyTuple(<<PyInt(42), PyStr(<<"x">>)>>)}

\* The arguments of a call of _field_to_json.
FieldToJsonInputs ==
    {<<SchemaField(N_a, field_type, mode, <<>>), row_value>> :
        field_type \in EncScalarTypes, mode \in Modes,
        row_value \in EncNatives \cup EncLists}
    \cup
    {<<SchemaField(N_r, "RECORD", mode, fs), row_value>> :
        mode \in {"NULLABLE", "REQUIRED"}, fs \in EncSubfieldLists,
        row_value \in {None} \cup RecordSamples}
    \cup
    \* a REPEATED record is given a list or a tuple of records, or no list
    {<<SchemaField(N_r, "RECORD", "REPEATED", fs), row_value>> :
        fs \in EncSubfieldLists,
        row_value \in {None, PyInt(42), PyList(<<>>)}
                        \cup {PyList(<<x>>) : x \in RecordSamples \cup {None}}
                        \cup {PyTuple(<<x, y>>) :
                                 x \in RecordSamples, y \in {None, EmptyDict}}}

\* _field_to_json(field, row_value)
FieldToJson ==
    /\ enc_op = "none"
    /\ <<enc_field, enc_value>> \in FieldToJsonInputs
    /\ enc_op' = "_field_to_json"
    /\ enc_result' = _field_to_json(enc_field, enc_value)
    /\ UNCHANGED <<enc_field, enc_fields, enc_value>>
    /\ UNCHANGED <<dec_vars, id_vars, nested_vars, ver_vars>>

\* _record_field_to_json(fields, row_value)
RecordFieldToJson ==
    /\ enc_op = "none"
    /\ <<enc_fields, enc_value>> \in RecordInputs
    /\ enc_op' = "_record_field_to_json"
    /\ enc_result' = _record_field_to_json(enc_fields, enc_value)
    /\ UNCHANGED <<enc_field, enc_fields, enc_value>>
    /\ UNCHANGED <<dec_vars, id_vars, nested_vars, ver_vars>>

InitEncode ==
    /\ enc_op = "none"
    /\ enc_result = Pending
    /\ \/ \E input \in FieldToJsonInputs :
            enc_field = input[1] /\ enc_fields = NoFields /\ enc_value = input[2]
       \/ \E input \in RecordInputs :
            enc_field = Unused /\ enc_fields = input[1] /\ enc_value = input[2]
    /\ DecodeIdle /\ IdIdle /\ NestedIdle /\ VersionIdle

NextEncode ==
    \/ FieldToJson
    \/ RecordFieldToJson

SpecEncode == InitEncode /\ [][NextEncode]_vars

(***************************************************************************)
(* Claims about the encoder.                                               *)
(***************************************************************************)
\* C3: _field_to_json(field, None) returns None for every field, whatever
\* its mode and whatever its type, and no converter is called on the way.
C3_NoneEncodesToNone ==
    (enc_op = "_field_to_json" /\ IsNone(enc_value)) => enc_result = Ret(None, {})

\* A REPEATED RECORD field was given None and None came back.
C3_Witness ==
    /\ enc_op = "_field_to_json"
    /\ IsNone(enc_value)
    /\ enc_field.mode = "REPEATED"
    /\ enc_field.field_type = "RECORD"
    /\ enc_result = Ret(None, {})

\* A call of _record_field_to_json on a row that is no mapping and has a
\* length.
PositionalCall ==
    /\ enc_op = "_record_field_to_json"
    /\ ~IsDict(enc_value)
    /\ Returned(py_len(enc_value))

\* C4: on a positional row whose length differs from the number of
\* subfields, _record_field_to_json raises a ValueError whose message holds
\* both lengths, and no record comes back; on a positional row of the
\* schema's length the length check raises nothing.
C4_ArityMismatchRaises ==
    PositionalCall =>
        LET row_len == py_len(enc_value).val.v
            schema_len == Len(enc_fields)
        IN IF row_len # schema_len
           THEN /\ Raised(enc_result)
                /\ enc_result.exc = "ValueError"
                /\ "msg" \in DOMAIN enc_result
                /\ enc_result.msg.args = <<NatText(row_len), NatText(schema_len)>>
                /\ "val" \notin DOMAIN enc_result
           ELSE "msg" \notin DOMAIN enc_result

\* A tuple of 2 items met a schema of 3 subfields, and the error names "2"
\* and "3".
C4_Witness ==
    /\ PositionalCall
    /\ enc_value.t = "tuple"
    /\ Len(enc_value.v) = 2
    /\ Len(enc_fields) = 3
    /\ Raised(enc_result)
    /\ enc_result.exc = "ValueError"
    /\ "msg" \in DOMAIN enc_result
    /\ enc_result.msg.args = <<<<"2">>, <<"3">>>>

\* Whether the row holds a value that is not None for subfield i (from 1).
SubvaluePresent(fields, row_value, i) ==
    IF IsDict(row_value)
    THEN HasKey(row_value, fields[i].name) /\ ~IsNone(row_value.v[fields[i].name])
    ELSE ~IsNone(Index(row_value, i - 1))

\* C5: the mapping _record_field_to_json returns has a key for a declared
\* subfield exactly when the row, a mapping or a sequence, holds a value
\* that is not None for it, and none of its keys maps to None.
C5_RecordIsSparse ==
    (enc_op = "_record_field_to_json" /\ Returned(enc_result)) =>
        LET record == enc_result.val.v IN
        /\ \A i \in 1..Len(enc_fields) :
              (enc_fields[i].name \in DOMAIN record)
                  <=> SubvaluePresent(enc_fields, enc_value, i)
        /\ \A k \in DOMAIN record : ~IsNone(record[k])

\* A two-item tuple whose second item is None was encoded against two
\* subfields, and only the first subfield has a key.
C5_Witness ==
    /\ enc_op = "_record_field_to_json"
    /\ enc_value = PyTuple(<<PyInt(42), None>>)
    /\ Len(enc_fields) = 2
    /\ Returned(enc_result)
    /\ DOMAIN enc_result.val.v = {enc_fields[1].name}

\* The names of the declared subfields.
DeclaredNames(fields) == {fields[i].name : i \in 1..Len(fields)}

\* The mapping row_value without the keys that fields does not declare.
DeclaredOnly(fields, row_value) ==
    PyDict([k \in DOMAIN row_value.v \cap DeclaredNames(fields) |-> row_value.v[k]])

\* C6: from a mapping row, _record_field_to_json keeps every undeclared key
\* whose value is not None, as str(value), drops the undeclared keys whose
\* value is None, and calls for them no function it would not call on the
\* row without them.
C6_UnknownKeysStringified ==
    (enc_op = "_record_field_to_json" /\ IsDict(enc_value) /\ Returned(enc_result)) =>
        LET record == enc_result.val.v
            undeclared == DOMAIN enc_value.v \ DeclaredNames(enc_fields)
        IN /\ \A k \in undeclared :
                 IF IsNone(enc_value.v[k]) THEN k \notin DOMAIN record
                 ELSE /\ k \in DOMAIN record
                      /\ record[k] = PyStr(py_str(enc_value.v[k]))
           /\ enc_result.calls =
                 _record_field_to_json(enc_fields,
                                       DeclaredOnly(enc_fields, enc_value)).calls

\* {"a": 42, "m": 42} was encoded against a schema declaring only the
\* INTEGER "a", giving {"a": "42", "m": "42"}.
C6_Witness ==
    /\ enc_op = "_record_field_to_json"
    /\ enc_fields = <<SchemaField(N_a, "INTEGER", "NULLABLE", <<>>)>>
    /\ enc_value = DictOf(PyInt(42), Absent, Absent, PyInt(42))
    /\ enc_result.kind = "return"
    /\ enc_result.val = DictOf(PyStr(<<"4", "2">>), Absent, Absent,
                               PyStr(<<"4", "2">>))

(***************************************************************************)
(* Qualified ids: _PROJECT_PREFIX_PATTERN, _split_id, _parse_3_part_id.    *)
(***************************************************************************)
\* Longest full_id the id functions are given.
MaxIdLen == 7

\* The characters of an id: a letter, the separators, and a whitespace.
IdChars == {"a", ".", ":", " "}
Whitespace == {" "}

\* s.find(".", pos): the position of the first "." from pos on, or 0.
FindDot(s, pos) ==
    LET dots == {i \in pos..Len(s) : s[i] = "."} IN
    IF dots = {} THEN 0 ELSE CHOOSE i \in dots : \A j \in dots : i <= j

NoPrefixMatch == [ok |-> FALSE]

\* The match of the pattern when \S+ takes the first n characters: ":"
\* follows, then [^.]+ up to a ".", then the dataset [^.]+, and then the end
\* of the text or a "." and the last group [^.]+ up to the end.  A group
\* that took no part in the match is None.
PrefixMatchOfLen(s, n) ==
    IF ~(n + 1 <= Len(s) /\ s[n + 1] = ":" /\ \A i \in 1..n : s[i] \notin Whitespace)
    THEN NoPrefixMatch
    ELSE LET d1 == FindDot(s, n + 2) IN
         IF d1 = 0 \/ d1 = n + 2 THEN NoPrefixMatch
         ELSE LET d2 == FindDot(s, d1 + 1) IN
              IF d2 = 0
              THEN IF d1 = Len(s) THEN NoPrefixMatch
                   ELSE [ok |-> TRUE,
                         project_id |-> PyStr(SubSeq(s, 1, d1 - 1)),
                         dataset_id |-> PyStr(SubSeq(s, d1 + 1, Len(s))),
                         custom_id |-> None]
              ELSE IF d2 = d1 + 1 \/ d2 = Len(s) \/ FindDot(s, d2 + 1) # 0
              THEN NoPrefixMatch
              ELSE [ok |-> TRUE,
                    project_id |-> PyStr(SubSeq(s, 1, d1 - 1)),
                    dataset_id |-> PyStr(SubSeq(s, d1 + 1, d2 - 1)),
                    custom_id |-> PyStr(SubSeq(s, d2 + 1, Len(s)))]

\* _PROJECT_PREFIX_PATTERN.match(s): \S+ is greedy, so the match is the one
\* of the longest \S+ that lets the rest of the pattern match.
_PROJECT_PREFIX_PATTERN(s) ==
    LET lens == {n \in 1..Len(s) : PrefixMatchOfLen(s, n).ok} IN
    IF lens = {} THEN NoPrefixMatch
    ELSE PrefixMatchOfLen(s, CHOOSE n \in lens : \A m \in lens : m <= n)

\* s.split("."), as a sequence of str values.
RECURSIVE py_split(_)
py_split(s) ==
    LET d == FindDot(s, 1) IN
    IF d = 0 THEN <<PyStr(s)>>
    ELSE <<PyStr(SubSeq(s, 1, d - 1))>> \o py_split(SubSeq(s, d + 1, Len(s)))

\* The truth value of a str or None.
Truthy(x) == ~IsNone(x) /\ x.v # <<>>

\* [part for part in parts if part]
RECURSIVE Truthies(_)
Truthies(parts) ==
    IF parts = <<>> THEN <<>>
    ELSE (IF Truthy(Head(parts)) THEN <<Head(parts)>> ELSE <<>>)
             \o Truthies(Tail(parts))

\* A mutant of _split_id that knows no project prefix.
_split_id_naive(full_id) == PyList(py_split(full_id.v))

_split_id(full_id) ==
    LET with_prefix == _PROJECT_PREFIX_PATTERN(full_id.v) IN
    IF ~with_prefix.ok THEN PyList(py_split(full_id.v))
    ELSE PyList(Truthies(<<with_prefix.project_id, with_prefix.dataset_id,
                           with_prefix.custom_id>>))

\* The two errors of _parse_3_part_id, by the start of their messages.
NotFullyQualified ==
    [kind |-> "raise", exc |-> "ValueError",
     msg |-> "{property_name} must be a fully-qualified ID in standard SQL format"]
NoDefaultProject ==
    [kind |-> "raise", exc |-> "ValueError",
     msg |-> "When default_project is not set, {property_name} must be a fully-qualified ID"]

\* A mutant of _parse_3_part_id without the check of default_project.
_parse_3_part_id_unchecked(full_id, default_project) ==
    LET parts == _split_id(full_id).v IN
    IF Len(parts) # 2 /\ Len(parts) # 3 THEN NotFullyQualified
    ELSE IF Len(parts) = 2
    THEN Return(PyTuple(<<default_project, parts[1], parts[2]>>))
    ELSE Return(PyTuple(<<parts[1], parts[2], parts[3]>>))

\* _parse_3_part_id(full_id, default_project), property_name left at its
\* default: it only fills the messages.
_parse_3_part_id(full_id, default_project) ==
    LET parts == _split_id(full_id).v IN
    IF Len(parts) # 2 /\ Len(parts) # 3 THEN NotFullyQualified
    ELSE IF Len(parts) = 2 /\ ~Truthy(default_project) THEN NoDefaultProject
    ELSE IF Len(parts) = 2
    THEN Return(PyTuple(<<default_project, parts[1], parts[2]>>))
    ELSE Return(PyTuple(<<parts[1], parts[2], parts[3]>>))

\* The ids the calls are given: the texts over IdChars of up to MaxIdLen
\* characters; and the default projects.
FullIdsOfLen(n) == {PyStr(s) : s \in [1..n -> IdChars]}
IsFullId(x) ==
    /\ IsStr(x)
    /\ Len(x.v) <= MaxIdLen
    /\ \A i \in 1..Len(x.v) : x.v[i] \in IdChars
DefaultProjects == {None, PyStr(<<>>), PyStr(<<"p">>)}

\* _split_id(full_id)
SplitId ==
    /\ id_op = "none"
    /\ IsFullId(id_full)
    /\ id_default = Unused
    /\ id_op' = "_split_id"
    /\ id_result' = Return(_split_id(id_full))
    /\ UNCHANGED <<id_full, id_default>>
    /\ UNCHANGED <<dec_vars, enc_vars, nested_vars, ver_vars>>

\* _parse_3_part_id(full_id, default_project)
Parse3PartId ==
    /\ id_op = "none"
    /\ IsFullId(id_full)
    /\ id_default \in DefaultProjects
    /\ id_op' = "_parse_3_part_id"
    /\ id_result' = _parse_3_part_id(id_full, id_default)
    /\ UNCHANGED <<id_full, id_default>>
    /\ UNCHANGED <<dec_vars, enc_vars, nested_vars, ver_vars>>

InitId ==
    /\ id_op = "none"
    /\ id_result = Pending
    /\ \E n \in 0..MaxIdLen : id_full \in FullIdsOfLen(n)
    /\ id_default \in DefaultProjects \cup {Unused}
    /\ DecodeIdle /\ EncodeIdle /\ NestedIdle /\ VersionIdle

NextId ==
    \/ SplitId
    \/ Parse3PartId

SpecId == InitId /\ [][NextId]_vars

(***************************************************************************)
(* Claims about the qualified ids.                                         *)
(***************************************************************************)
\* C7: _parse_3_part_id splits full_id with _split_id; a number of parts
\* other than 2 or 3 is a ValueError about the format, 2 parts without a
\* default project (None or "") is a ValueError, 2 parts with a default
\* project give (default_project, part0, part1), and 3 parts give
\* (part0, part1, part2) whatever the default project.
C7_ParseThreePartId ==
    id_op = "_parse_3_part_id" =>
        LET parts == _split_id(id_full).v
            unset == IsNone(id_default) \/ id_default = PyStr(<<>>)
        IN /\ Len(parts) \notin {2, 3} => id_result = NotFullyQualified
           /\ (Len(parts) = 2 /\ unset) =>
                 (Raised(id_result) /\ id_result.exc = "ValueError")
           /\ (Len(parts) = 2 /\ ~unset) =>
                 id_result = Return(PyTuple(<<id_default, parts[1], parts[2]>>))
           /\ Len(parts) = 3 =>
                 id_result = Return(PyTuple(<<parts[1], parts[2], parts[3]>>))

\* "a:a.a" was parsed with the default project "p", giving ("p", "a:a", "a").
C7_Witness ==
    /\ id_op = "_parse_3_part_id"
    /\ id_full = PyStr(<<"a", ":", "a", ".", "a">>)
    /\ id_default = PyStr(<<"p">>)
    /\ id_result = Return(PyTuple(<<PyStr(<<"p">>), PyStr(<<"a", ":", "a">>),
                                    PyStr(<<"a">>)>>))

\* Whether s reads prefix ":" project "." dataset, or that and "." resource:
\* a prefix without whitespace, and parts that are not empty and hold no ".".
HasProjectPrefix(s) ==
    \E n \in 1..Len(s) :
        /\ n + 1 <= Len(s)
        /\ s[n + 1] = ":"
        /\ \A i \in 1..n : s[i] \notin Whitespace
        /\ LET rest == py_split(SubSeq(s, n + 2, Len(s))) IN
           /\ Len(rest) \in {2, 3}
           /\ \A i \in 1..Len(rest) : rest[i].v # <<>>

\* The characters of a text.
CharsOf(s) == {s[i] : i \in 1..Len(s)}

\* C8: the parts _split_id returns, joined by ".", are the id.  For an id
\* without a project prefix they are its dot-separated components.  For an
\* id with one there are 2 or 3 of them and none is empty: the first is the
\* "prefix:project" text, whatever dots its prefix holds, and the others,
\* the dataset and the resource if there is one, hold no ".".
C8_SplitQualifiedId ==
    id_op = "_split_id" =>
        LET parts == id_result.val.v IN
        /\ \A i \in 1..Len(parts) : IsStr(parts[i])
        /\ JoinTexts([i \in 1..Len(parts) |-> parts[i].v], <<".">>) = id_full.v
        /\ IF ~HasProjectPrefix(id_full.v)
           THEN \A i \in 1..Len(parts) : "." \notin CharsOf(parts[i].v)
           ELSE /\ Len(parts) \in {2, 3}
                /\ \A i \in 1..Len(parts) : parts[i].v # <<>>
                /\ ":" \in CharsOf(parts[1].v)
                /\ \A i \in 2..Len(parts) : "." \notin CharsOf(parts[i].v)

\* "a.a:a.a", whose prefix holds a dot, was split into "a.a:a" and "a".
C8_Witness ==
    /\ id_op = "_split_id"
    /\ id_full = PyStr(<<"a", ".", "a", ":", "a", ".", "a">>)
    /\ id_result = Return(PyList(<<PyStr(<<"a", ".", "a", ":", "a">>),
                                   PyStr(<<"a">>)>>))

(***************************************************************************)
(* Nested properties: _get_sub_prop, _set_sub_prop, _del_sub_prop.  A      *)
(* dictionary is changed in place by the program; here a walk returns, in  *)
(* obj, the object it walked as the walk left it.                          *)
(***************************************************************************)
\* Most calls made on one container.
MaxOps == 3
\* Longest list of keys given to the accessors.
MaxPathLen == 2

\* Whether the text k occurs in the text s.
Occurs(k, s) ==
    k = <<>> \/ \E i \in 1..(Len(s) - Len(k) + 1) : SubSeq(s, i, i + Len(k) - 1) = k

\* "key in x" for a str key: a dict looks it up, a str searches it, a list
\* or tuple compares its items, and an int, a bool or None cannot be searched.
Contains(key, x) ==
    CASE IsDict(x) -> Return(HasKey(x, key.v))
      [] IsStr(x) -> Return(Occurs(key.v, x.v))
      [] x.t \in {"list", "tuple"} -> Return(\E i \in 1..Len(x.v) : x.v[i] = key)
      [] OTHER -> Raise("TypeError")

\* x[key] for a str key.
GetItem(x, key) ==
    IF ~IsDict(x) THEN Raise("TypeError")
    ELSE IF ~HasKey(x, key.v) THEN Raise("KeyError")
    ELSE Return(x.v[key.v])

\* The dict d after d[key] = value.
Updated(d, key, value) ==
    PyDict([k \in DOMAIN d.v \cup {key.v} |-> IF k = key.v THEN value ELSE d.v[k]])

\* The dict d after del d[key].
Removed(d, key) == PyDict([k \in DOMAIN d.v \ {key.v} |-> d.v[k]])

\* The end of a walk: it returned or raised, and left obj behind.
Done(x, obj) == [kind |-> "return", val |-> x, obj |-> obj]
Fail(e, obj) == [kind |-> "raise", exc |-> e, obj |-> obj]

\* x[key] = value
SetItem(x, key, value) ==
    IF IsDict(x) THEN Done(None, Updated(x, key, value)) ELSE Fail("TypeError", x)

\* del x[key]
DelItem(x, key) ==
    IF ~IsDict(x) THEN Fail("TypeError", x)
    ELSE IF ~HasKey(x, key.v) THEN Fail("KeyError", x)
    ELSE Done(None, Removed(x, key))

\* "if isinstance(keys, str): keys = [keys]": the keys as a sequence.
ListOfKeys(keys) == IF IsStr(keys) THEN <<keys>> ELSE keys.v

\* The items of keys as slicing and indexing give them: a str is taken
\* character by character.
ItemsOfKeys(keys) ==
    IF IsStr(keys) THEN [i \in 1..Len(keys.v) |-> PyStr(<<keys.v[i]>>)] ELSE keys.v

\* The loop of _get_sub_prop from key i on, and its return.
RECURSIVE GetWalk(_, _, _, _)
GetWalk(sub_val, keys, i, default) ==
    IF i > Len(keys) THEN Return(sub_val)
    ELSE LET found == Contains(keys[i], sub_val) IN
         IF Raised(found) THEN found
         ELSE IF ~found.val THEN Return(default)
         ELSE LET item == GetItem(sub_val, keys[i]) IN
              IF Raised(item) THEN item
              ELSE GetWalk(item.val, keys, i + 1, default)

\* A mutant of _get_sub_prop without the isinstance(keys, str) test.
_get_sub_prop_no_str_test(container_, keys, default) ==
    GetWalk(container_, ItemsOfKeys(keys), 1, default)

_get_sub_prop(container_, keys, default) ==
    GetWalk(container_, ListOfKeys(keys), 1, default)

\* One round of the loop "for key in keys[:-1]" of _set_sub_prop and of
\* _del_sub_prop, then the rest of the function (last decides which) on
\* sub_val[key]; the dict walked into is the one sub_val holds, so what
\* the rest does to it shows in sub_val.
RECURSIVE WalkToLast(_, _, _, _, _)
WalkToLast(sub_val, keys, i, last, value) ==
    IF i = Len(keys)
    THEN IF last = "set" THEN SetItem(sub_val, keys[i], value)
         ELSE LET found == Contains(keys[i], sub_val) IN
              IF Raised(found) THEN Fail(found.exc, sub_val)
              ELSE IF found.val THEN DelItem(sub_val, keys[i])
              ELSE Done(None, sub_val)
    ELSE LET found == Contains(keys[i], sub_val) IN
         IF Raised(found) THEN Fail(found.exc, sub_val)
         ELSE LET made == IF found.val THEN Done(None, sub_val)
                          ELSE SetItem(sub_val, keys[i], EmptyDict)
              IN IF Raised(made) THEN made
                 ELSE LET item == GetItem(made.obj, keys[i]) IN
                      IF Raised(item) THEN Fail(item.exc, made.obj)
                      ELSE LET rest == WalkToLast(item.val, keys, i + 1, last, value)
                           IN [rest EXCEPT !.obj = Updated(made.obj, keys[i], @)]

\* _set_sub_prop(container, keys, value); keys[-1] of no keys is an
\* IndexError.
_set_sub_prop(container_, keys, value) ==
    IF ListOfKeys(keys) = <<>> THEN Fail("IndexError", container_)
    ELSE WalkToLast(container_, ListOfKeys(keys), 1, "set", value)

\* _del_sub_prop(container, keys): keys is sliced and indexed as it came.
_del_sub_prop(container_, keys) ==
    IF ItemsOfKeys(keys) = <<>> THEN Fail("IndexError", container_)
    ELSE WalkToLast(container_, ItemsOfKeys(keys), 1, "del", None)

(***************************************************************************)
(* The accessors' calls: one container, one keys argument and one value,   *)
(* and up to MaxOps calls of the three functions in any order.             *)
(***************************************************************************)
N_ab == <<"a", "b">>

\* The dicts below the top level: "a" and "b", each absent, 1 or {}.
InnerChoices == {Absent, PyInt(1), EmptyDict}
InnerDicts ==
    {PyDict([k \in {j \in {N_a, N_b} : choice[j] # Absent} |-> choice[k]]) :
        choice \in [{N_a, N_b} -> InnerChoices]}

\* The containers the calls start from: "a" absent, a value that is no
\* dict, or a dict; "ab" absent, 1 or {}.
Containers ==
    {PyDict([k \in {j \in {N_a, N_ab} : choice[j] # Absent} |-> choice[k]]) :
        choice \in {c \in [{N_a, N_ab} ->
                              InnerChoices \cup InnerDicts \cup {PyStr(N_b)}] :
                       c[N_ab] \in InnerChoices}}

\* The keys arguments: a str, or a list of up to MaxPathLen keys.
KeysInputs ==
    {PyStr(N_a), PyStr(N_ab), PyList(<<PyStr(N_ab)>>)}
        \cup {PyList(q) :
                 q \in UNION {SeqsOfLen({PyStr(N_a), PyStr(N_b)}, n) :
                                 n \in 0..MaxPathLen}}

ValueInputs == {PyInt(2), EmptyDict}

\* The default of _get_sub_prop's default parameter.
GetDefault == None

\* A call and its outcome, as the log holds it.
Logged(op, r) ==
    [op |-> op, outcome |-> IF Returned(r) THEN Return(r.val) ELSE Raise(r.exc)]

\* _get_sub_prop(container, keys)
GetSubProp ==
    /\ container # Unused
    /\ Len(log) < MaxOps
    /\ log' = Append(log, Logged("_get_sub_prop",
                                 _get_sub_prop(container, sub_keys, GetDefault)))
    /\ before' = container
    /\ UNCHANGED <<container, sub_keys, sub_value>>
    /\ UNCHANGED <<dec_vars, enc_vars, id_vars, ver_vars>>

\* _set_sub_prop(container, keys, value)
SetSubProp ==
    /\ container # Unused
    /\ Len(log) < MaxOps
    /\ LET r == _set_sub_prop(container, sub_keys, sub_value) IN
       /\ container' = r.obj
       /\ log' = Append(log, Logged("_set_sub_prop", r))
    /\ before' = container
    /\ UNCHANGED <<sub_keys, sub_value>>
    /\ UNCHANGED <<dec_vars, enc_vars, id_vars, ver_vars>>

\* _del_sub_prop(container, keys)
DelSubProp ==
    /\ container # Unused
    /\ Len(log) < MaxOps
    /\ LET r == _del_sub_prop(container, sub_keys) IN
       /\ container' = r.obj
       /\ log' = Append(log, Logged("_del_sub_prop", r))
    /\ before' = container
    /\ UNCHANGED <<sub_keys, sub_value>>
    /\ UNCHANGED <<dec_vars, enc_vars, id_vars, ver_vars>>

InitNested ==
    /\ container \in Containers
    /\ before = container
    /\ sub_keys \in KeysInputs
    /\ sub_value \in ValueInputs
    /\ log = <<>>
    /\ DecodeIdle /\ EncodeIdle /\ IdIdle /\ VersionIdle

NextNested ==
    \/ GetSubProp
    \/ SetSubProp
    \/ DelSubProp

SpecNested == InitNested /\ [][NextNested]_vars

(***************************************************************************)
(* Claims about the nested properties.                                     *)
(***************************************************************************)
\* What x holds under the first j keys, or Absent.
RECURSIVE ValueAt(_, _, _)
ValueAt(x, keys, j) ==
    IF j = 0 THEN x
    ELSE LET up == ValueAt(x, keys, j - 1) IN
         IF ~IsDict(up) \/ ~HasKey(up, keys[j].v) THEN Absent
         ELSE up.v[keys[j].v]

\* Whether a key before the last leads, in x, to a value that is no dict.
CrossesLeaf(x, keys) ==
    \E j \in 1..(Len(keys) - 1) :
        ValueAt(x, keys, j) # Absent /\ ~IsDict(ValueAt(x, keys, j))

\* C9: after _set_sub_prop(container, keys, v) has returned,
\* _get_sub_prop(container, keys) returns v, for keys given as one str or
\* as a list, also when the keys before the last were absent; and
\* _set_sub_prop returns unless keys is empty or leads through a value that
\* is no dict.
C9_SetThenGet ==
    /\ \A i \in 2..Len(log) :
          (/\ log[i - 1] = [op |-> "_set_sub_prop", outcome |-> Return(None)]
           /\ log[i].op = "_get_sub_prop")
              => log[i].outcome = Return(sub_value)
    /\ (Len(log) > 0 /\ log[Len(log)].op = "_set_sub_prop"
                     /\ Raised(log[Len(log)].outcome))
          => \/ ListOfKeys(sub_keys) = <<>>
             \/ CrossesLeaf(before, ListOfKeys(sub_keys))

\* On the empty container, ["a", "b"] was set and then read back.
C9_Witness ==
    /\ sub_keys = PyList(<<PyStr(N_a), PyStr(N_b)>>)
    /\ before = Dict1(N_a, Dict1(N_b, sub_value))
    /\ container = before
    /\ log = <<[op |-> "_del_sub_prop", outcome |-> Return(None)],
               [op |-> "_set_sub_prop", outcome |-> Return(None)],
               [op |-> "_get_sub_prop", outcome |-> Return(sub_value)]>>

\* C10: when _del_sub_prop follows a _set_sub_prop of the same keys that
\* returned, keys given as one str or as a list, it returns and leaves the
\* last key absent, and a _get_sub_prop that follows returns the default.
C10_DeleteAfterSet ==
    \A i \in 2..Len(log) :
        (/\ log[i - 1] = [op |-> "_set_sub_prop", outcome |-> Return(None)]
         /\ log[i].op = "_del_sub_prop")
            => /\ log[i].outcome = Return(None)
               /\ (i = Len(log)) =>
                     _get_sub_prop(container, sub_keys, GetDefault)
                         = Return(GetDefault)
               /\ (i < Len(log) /\ log[i + 1].op = "_get_sub_prop")
                     => log[i + 1].outcome = Return(GetDefault)

\* C11: a _del_sub_prop whose keys, one str or a list that is not empty,
\* lead to nothing in the container (the last key or a key before it is
\* missing) raises nothing and leaves the container as it was.
C11_DeleteAbsentIsNoOp ==
    (/\ Len(log) > 0
     /\ log[Len(log)].op = "_del_sub_prop"
     /\ ListOfKeys(sub_keys) # <<>>
     /\ ValueAt(before, ListOfKeys(sub_keys), Len(ListOfKeys(sub_keys))) = Absent)
        => /\ log[Len(log)].outcome = Return(None)
           /\ container = before

(***************************************************************************)
(* A row value encoded by _field_to_json and the result decoded by the     *)
(* converter of _CELLDATA_FROM_JSON for the same field.                    *)
(***************************************************************************)
\* Years, month-days and times of day of the values encoded: the ends of
\* the ranges of datetime, and years on both sides of 1000.
SafeYears == {1, 999, 1000, 2024, 9999}
SafeMonthDays == {<<1, 1>>, <<2, 28>>, <<12, 31>>}
SafeTimes ==
    {<<h, mi, sec, us>> : h \in {0, 12, 23}, mi \in {0, 59}, sec \in {0, 59},
                          us \in {0, 1, 123456, 999999}}

\* The native values of a field type for which encoding loses nothing.
SafeValues(field_type) ==
    CASE field_type \in {"INTEGER", "INT64"} ->
            {PyInt(n) : n \in {-1000, -12, -1, 0, 7, 42, 1000}}
      [] field_type \in {"BOOLEAN", "BOOL"} -> {PyBool(TRUE), PyBool(FALSE)}
      [] field_type \in {"FLOAT", "FLOAT64"} -> {PyFloat(n) : n \in {-2, 0, 1, 3}}
      [] field_type = "DATE" ->
            {PyDate(y, md[1], md[2]) : y \in SafeYears, md \in SafeMonthDays}
                \cup {PyDate(2024, 2, 29)}
      [] field_type = "TIME" -> {PyTime(x[1], x[2], x[3], x[4]) : x \in SafeTimes}
      [] field_type = "DATETIME" ->
            {PyDatetime(y, md[1], md[2], x[1], x[2], x[3], x[4], "naive") :
                y \in SafeYears, md \in SafeMonthDays, x \in SafeTimes}

SafeTypes ==
    {"INTEGER", "INT64", "BOOLEAN", "BOOL", "FLOAT", "FLOAT64", "DATE", "TIME",
     "DATETIME"}

\* _field_to_json(field, row_value), for a value of the field's type
EncodeRowValue ==
    /\ enc_op = "none"
    /\ enc_field # Unused
    /\ enc_field.field_type \in SafeTypes
    /\ enc_value \in SafeValues(enc_field.field_type)
    /\ dec_op = "none"
    /\ dec_value = Unused
    /\ enc_op' = "_field_to_json"
    /\ enc_result' = _field_to_json(enc_field, enc_value)
    /\ UNCHANGED <<enc_field, enc_fields, enc_value>>
    /\ UNCHANGED <<dec_vars, id_vars, nested_vars, ver_vars>>

\* _CELLDATA_FROM_JSON[field.field_type](value, field), for the value the
\* encoder returned
DecodeEncoded ==
    /\ enc_op = "_field_to_json"
    /\ Returned(enc_result)
    /\ dec_op = "none"
    /\ dec_value = Unused
    /\ dec_op' = "_CELLDATA_FROM_JSON"
    /\ dec_type' = enc_field.field_type
    /\ dec_field' = enc_field
    /\ dec_value' = enc_result.val
    /\ dec_result' = _CELLDATA_FROM_JSON(enc_field.field_type, enc_result.val,
                                         enc_field)
    /\ UNCHANGED <<enc_vars, id_vars, nested_vars, ver_vars>>

InitRoundTrip ==
    /\ enc_op = "none"
    /\ enc_result = Pending
    /\ enc_fields = NoFields
    /\ \E field_type \in SafeTypes, mode \in {"NULLABLE", "REQUIRED"} :
          /\ enc_field = SchemaField(N_a, field_type, mode, <<>>)
          /\ enc_value \in SafeValues(field_type)
    /\ DecodeIdle /\ IdIdle /\ NestedIdle /\ VersionIdle

NextRoundTrip ==
    \/ EncodeRowValue
    \/ DecodeEncoded

SpecRoundTrip == InitRoundTrip /\ [][NextRoundTrip]_vars

\* C12: a value of a safe type (INTEGER, BOOLEAN, DATE, TIME, naive
\* DATETIME, finite FLOAT), encoded for a row and decoded again under a
\* field of that type, comes back equal.
C12_RoundTrip ==
    (enc_op = "_field_to_json" /\ dec_op = "_CELLDATA_FROM_JSON")
        => dec_result = Return(enc_value)


(***************************************************************************)
(* TIME wire texts.  The texts are an hour, a minute and a second, each    *)
(* well formed or not, joined by ":" or "-", and a tail: nothing, a        *)
(* fraction of one to seven characters or a zone.                          *)
(***************************************************************************)
TimeHours == {<<"1", "2">>, <<"2", "3">>, <<"2", "4">>, <<"1">>, <<"1", "x">>, <<"0", "0">>}
TimeSeparators == {<<":">>, <<"-">>}
TimeMinutes == {<<"3", "0">>, <<"5", "9">>, <<"6", "0">>, <<"5">>}
TimeSeconds == {<<"0", "0">>, <<"5", "9">>, <<"6", "0">>, <<"6", "1">>, <<"7">>}
TimeTails ==
    { <<>>,
      <<".", "1", "2", "3", "4", "5", "6">>,
      <<".", "5">>,
      <<".", "0", "0", "0", "0", "0", "1">>,
      <<".", "1", "2", "3", "4", "5", "x">>,
      <<".", "1", "2", "3", "4", "5", "6", "7">>,
      <<"Z">>,
      <<"+", "0", "0", ":", "0", "0">>,
      <<".", "9", "9", "9", "9", "9", "9">> }

TimeTexts(hh) ==
    {hh \o s1 \o mm \o s2 \o ss \o tail :
        s1 \in TimeSeparators, mm \in TimeMinutes, s2 \in TimeSeparators,
        ss \in TimeSeconds, tail \in TimeTails}

TimeFields == {SchemaField(N_a, "TIME", m, <<>>) : m \in Modes} \cup {NoField}

\* A caller applies the table's TIME converter to a wire text.
DecodeTime ==
    /\ dec_op = "none"
    /\ dec_type = "TIME"
    /\ IsStr(dec_value)
    /\ dec_op' = "_time_from_json"
    /\ dec_result' = _CELLDATA_FROM_JSON("TIME", dec_value, dec_field)
    /\ UNCHANGED <<dec_type, dec_field, dec_value>>
    /\ UNCHANGED <<enc_vars, id_vars, nested_vars, ver_vars>>

InitTime ==
    /\ dec_op = "none"
    /\ dec_result = Pending
    /\ dec_type = "TIME"
    /\ dec_field \in TimeFields
    /\ \E hh \in TimeHours : \E s \in TimeTexts(hh) : dec_value = PyStr(s)
    /\ EncodeIdle /\ IdIdle /\ NestedIdle /\ VersionIdle

NextTime == DecodeTime

SpecTime == InitTime /\ [][NextTime]_vars

\* Whether s[from..from+1] is a two-digit number of at most max.
TwoDigits(s, from, max) ==
    /\ s[from] \in Digits
    /\ s[from + 1] \in Digits
    /\ DecimalValue(SubSeq(s, from, from + 1)) <= max

\* Whether at least eight characters of s start with HH:MM:SS, a time of day.
IsClock(s) ==
    /\ TwoDigits(s, 1, 23) /\ s[3] = ":"
    /\ TwoDigits(s, 4, 59) /\ s[6] = ":"
    /\ TwoDigits(s, 7, 59)

ClockTime(s, us) ==
    PyTime(DecimalValue(SubSeq(s, 1, 2)), DecimalValue(SubSeq(s, 4, 5)),
           DecimalValue(SubSeq(s, 7, 8)), us)

\* C13: the TIME decoder chooses its format by the length of the wire text
\* only.  A text of 8 characters decodes as HH:MM:SS (the time it spells, or
\* ValueError when it does not spell one); a text of 15 characters decodes
\* as HH:MM:SS.ffffff in the same way; a text of any other length raises
\* the "Unknown time format" ValueError, which carries the text, and no
\* time is returned.
C13_TimeLengthDispatch ==
    (dec_op = "_time_from_json") =>
        LET s == dec_value.v IN
        CASE Len(s) = 8 ->
                 IF IsClock(s) THEN dec_result = Return(ClockTime(s, 0))
                 ELSE dec_result = Raise("ValueError")
          [] Len(s) = 15 ->
                 IF IsClock(s) /\ s[9] = "." /\ IsDigits(SubSeq(s, 10, 15))
                 THEN dec_result =
                          Return(ClockTime(s, DecimalValue(SubSeq(s, 10, 15))))
                 ELSE dec_result = Raise("ValueError")
          [] OTHER ->
                 dec_result =
                     [kind |-> "raise", exc |-> "ValueError",
                      msg |-> [template |-> "Unknown time format: {}",
                               args |-> <<dec_value>>]]

\* An 8-character text that spells a time with a fraction ("1:30:7.5") was
\* given to the no-fraction format and refused.
C13_Witness ==
    /\ dec_op = "_time_from_json"
    /\ dec_value = PyStr(<<"1", ":", "3", "0", ":", "7", ".", "5">>)
    /\ dec_result = Raise("ValueError")


(***************************************************************************)
(* INTERVAL wire texts: "[-]Y-M [-]D [-]H:M:S[.F]" with components in and  *)
(* out of their units' ranges, and texts off the grammar (another          *)
(* separator, a "+" sign, a tail).                                         *)
(***************************************************************************)
IntervalSigns == {<<>>, <<"-">>}
IntervalYears == {<<"1">>, <<"0">>}
IntervalYearSeparators == {<<"-">>, <<":">>}
IntervalMonths == {<<"2">>, <<"1", "1">>, <<"1", "2">>, <<"2", "5">>}
IntervalDays == {<<"3">>, <<"-", "1", "5">>, <<"+", "3">>}
IntervalHours == {<<"4">>, <<"2", "3">>, <<"2", "4">>, <<"4", "9">>}
IntervalMinutes == {<<"5">>, <<"6", "0">>}
IntervalSeconds == {<<"6">>, <<"6", "1">>}
IntervalFractions == {<<>>, <<".">>, <<".", "5">>, <<".", "5", "0", "0", "0", "0", "0">>, <<".", "1", "2", "3", "4", "5", "6", "7">>}
IntervalTails == {<<>>, <<"x">>, <<"\n">>}

IntervalTexts(calendar_sign, time_sign) ==
    {calendar_sign \o y \o sep \o mo \o <<" ">> \o d \o <<" ">> \o time_sign
         \o h \o <<":">> \o mi \o <<":">> \o sec \o f \o tail :
        y \in IntervalYears, sep \in IntervalYearSeparators,
        mo \in IntervalMonths, d \in IntervalDays, h \in IntervalHours,
        mi \in IntervalMinutes, sec \in IntervalSeconds,
        f \in IntervalFractions, tail \in IntervalTails}

IntervalFields == {SchemaField(N_a, "INTERVAL", "NULLABLE", <<>>), NoField}

\* A caller applies the table's INTERVAL converter to a wire text.
DecodeInterval ==
    /\ dec_op = "none"
    /\ dec_type = "INTERVAL"
    /\ IsStr(dec_value)
    /\ dec_op' = "_interval_from_json"
    /\ dec_result' = _CELLDATA_FROM_JSON("INTERVAL", dec_value, dec_field)
    /\ UNCHANGED <<dec_type, dec_field, dec_value>>
    /\ UNCHANGED <<enc_vars, id_vars, nested_vars, ver_vars>>

InitInterval ==
    /\ dec_op = "none"
    /\ dec_result = Pending
    /\ dec_type = "INTERVAL"
    /\ dec_field \in IntervalFields
    /\ \E cs \in IntervalSigns, ts \in IntervalSigns :
          \E s \in IntervalTexts(cs, ts) : dec_value = PyStr(s)
    /\ EncodeIdle /\ IdIdle /\ NestedIdle /\ VersionIdle

NextInterval == DecodeInterval

SpecInterval == InitInterval /\ [][NextInterval]_vars

\* The sign a sign group stands for.
SignOf(group) == IF group = <<"-">> THEN 0 - 1 ELSE 1

\* The first six digits of the fraction right-padded with "0", as a number.
FractionMicros(f) ==
    IF Len(f) = 0 THEN 0 ELSE DecimalValue(SubSeq(RightPad(f, 6), 1, 6))


\* C14, as stated: a matching text decodes to the interval whose years and
\* months are the calendar sign times their digits, whose days is the text's
\* own signed number and whose hours, minutes, seconds and microseconds are
\* the time sign times their digits (the fraction right-padded to six
\* digits); a text that does not match raises ValueError.
C14_IndependentSigns ==
    (dec_op = "_interval_from_json") =>
        LET p == _INTERVAL_PATTERN(dec_value.v) IN
        IF p.ok
        THEN dec_result =
                 Return([t |-> "relativedelta",
                         v |-> <<SignOf(p.calendar_sign) * DecimalValue(p.years),
                                 SignOf(p.calendar_sign) * DecimalValue(p.months),
                                 IntLiteralValue(p.days),
                                 SignOf(p.time_sign) * DecimalValue(p.hours),
                                 SignOf(p.time_sign) * DecimalValue(p.minutes),
                                 SignOf(p.time_sign) * DecimalValue(p.seconds),
                                 SignOf(p.time_sign) * FractionMicros(p.fraction)>>])
        ELSE dec_result = Raise("ValueError")

\* C14, amended: the interval is kept in normal form.  With
\* m = 12 * years + months and t = 3600 * hours + 60 * minutes + seconds of
\* the text's digits, years and months are the calendar sign times m div 12
\* and m mod 12; hours, minutes and seconds are the time sign times the
\* hour, minute and second of t mod 86400; microseconds is the time sign
\* times the first six digits of the right-padded fraction; and days is the
\* text's own signed number plus the time sign times t div 86400.  A text
\* that does not match raises ValueError.
C14_IndependentSignsNormalised ==
    (dec_op = "_interval_from_json") =>
        LET p == _INTERVAL_PATTERN(dec_value.v) IN
        IF p.ok
        THEN LET cs == SignOf(p.calendar_sign)
                 ts == SignOf(p.time_sign)
                 m == 12 * DecimalValue(p.years) + DecimalValue(p.months)
                 t == 3600 * DecimalValue(p.hours) + 60 * DecimalValue(p.minutes)
                      + DecimalValue(p.seconds)
             IN dec_result =
                    Return([t |-> "relativedelta",
                            v |-> <<cs * (m \div 12), cs * (m % 12),
                                    IntLiteralValue(p.days) + ts * (t \div 86400),
                                    ts * ((t % 86400) \div 3600),
                                    ts * ((t % 3600) \div 60),
                                    ts * (t % 60),
                                    ts * FractionMicros(p.fraction)>>])
        ELSE dec_result = Raise("ValueError")

\* "1-25 3 -49:5:6.5" was decoded: 25 months carry two years, 49 hours
\* carry two days against the sign of the days.
C14_Witness ==
    /\ dec_op = "_interval_from_json"
    /\ dec_value = PyStr(<<"1", "-", "2", "5", " ", "3", " ", "-", "4", "9", ":",
                           "5", ":", "6", ".", "5">>)
    /\ dec_result = Return([t |-> "relativedelta",
                            v |-> <<3, 1, 1, 0 - 1, 0 - 5, 0 - 6, 0 - 500000>>])


(***************************************************************************)
(* The query-parameter TIMESTAMP encoder.  A datetime of another zone than *)
(* UTC holds tz = "zone" and its utcoffset() in minutes.                   *)
(***************************************************************************)
PyDatetimeZone(y, mo, d, h, mi, s, us, offset) ==
    [t |-> "datetime", v |-> <<y, mo, d, h, mi, s, us>>, tz |-> "zone",
     utcoffset |-> offset]

\* The day number (days since 1970-01-01) of a proleptic Gregorian date.
DaysFromCivil(y, m, d) ==
    LET y1 == IF m <= 2 THEN y - 1 ELSE y
        era == y1 \div 400
        yoe == y1 - era * 400
        mp == IF m > 2 THEN m - 3 ELSE m + 9
        doy == (153 * mp + 2) \div 5 + d - 1
        doe == yoe * 365 + yoe \div 4 - yoe \div 100 + doy
    IN era * 146097 + doe - 719468

\* value.replace(tzinfo=None) - value.utcoffset(): the fields of the naive
\* datetime, the year outside 1..9999 when the subtraction overflows.
MinusOffset(v, offset) ==
    LET shifted == v[4] * 60 + v[5] - offset
        ymd == CivilFromDays(DaysFromCivil(v[1], v[2], v[3]) + shifted \div 1440)
        mins == shifted % 1440
    IN <<ymd[1], ymd[2], ymd[3], mins \div 60, mins % 60, v[6], v[7]>>

UtcSuffix == <<"+", "0", "0", ":", "0", "0">>

\* A mutant of _timestamp_to_json_parameter that drops the zone without
\* subtracting its offset.
_timestamp_to_json_parameter_drops_zone(value) ==
    IF value.t = "datetime"
    THEN Return(PyStr(DateIso(value.v[1], value.v[2], value.v[3]) \o <<" ">>
                      \o TimeIso(value.v[4], value.v[5], value.v[6], value.v[7])
                      \o UtcSuffix))
    ELSE Return(value)

_timestamp_to_json_parameter(value) ==
    IF value.t = "datetime"
    THEN LET utc == IF value.tz \notin {"naive", "UTC"}
                    THEN MinusOffset(value.v, value.utcoffset)
                    ELSE value.v
         IN IF utc[1] \notin 1..9999 THEN Raise("OverflowError")
            ELSE Return(PyStr(DateIso(utc[1], utc[2], utc[3]) \o <<" ">>
                              \o TimeIso(utc[4], utc[5], utc[6], utc[7])
                              \o UtcSuffix))
    ELSE Return(value)

\* The datetimes a TIMESTAMP query parameter is given: the ends of the
\* range of years, a leap day, midnight and the last second, with and
\* without microseconds, naive, UTC and of zones east and west of UTC.
ParamYears == {1, 999, 2024, 9999}
ParamMonthDays == {<<1, 1>>, <<3, 1>>, <<12, 31>>}
ParamTimes == {<<0, 0, 0>>, <<0, 30, 0>>, <<23, 59, 59>>}
ParamMicros == {0, 1, 500000, 999999}
ParamOffsets == {0 - 480, 0, 60, 330}

ParamDatetimes(y) ==
    UNION {{PyDatetime(y, md[1], md[2], tm[1], tm[2], tm[3], us, "naive"),
            PyDatetime(y, md[1], md[2], tm[1], tm[2], tm[3], us, "UTC")}
           \cup {PyDatetimeZone(y, md[1], md[2], tm[1], tm[2], tm[3], us, offset) :
                    offset \in ParamOffsets} :
           md \in ParamMonthDays, tm \in ParamTimes, us \in ParamMicros}

\* What is no datetime.
ParamOthers == {None, PyStr(<<"x">>), PyInt(1)}

\* A query parameter of type TIMESTAMP converts its value.
TimestampToJsonParameter ==
    /\ enc_op = "none"
    /\ enc_value # Unused
    /\ enc_op' = "_timestamp_to_json_parameter"
    /\ enc_result' = _timestamp_to_json_parameter(enc_value)
    /\ UNCHANGED <<enc_field, enc_fields, enc_value>>
    /\ UNCHANGED <<dec_vars, id_vars, nested_vars, ver_vars>>

InitParameter ==
    /\ enc_op = "none"
    /\ enc_field = Unused
    /\ enc_fields = NoFields
    /\ enc_result = Pending
    /\ \/ \E y \in ParamYears : enc_value \in ParamDatetimes(y)
       \/ enc_value \in ParamOthers
    /\ DecodeIdle /\ IdIdle /\ NestedIdle /\ VersionIdle

NextParameter == TimestampToJsonParameter

SpecParameter == InitParameter /\ [][NextParameter]_vars

\* The minute of its day in UTC of a datetime value, which falls outside
\* 0..1439 when the day in UTC is another one, and the day number and the
\* minute of the day of its instant in UTC.
UtcShifted(value) ==
    value.v[4] * 60 + value.v[5] - (IF value.tz = "zone" THEN value.utcoffset ELSE 0)
UtcDayOf(value) ==
    DaysFromCivil(value.v[1], value.v[2], value.v[3]) + UtcShifted(value) \div 1440
UtcMinuteOf(value) == UtcShifted(value) % 1440

\* Whether s[from..to] are digits.
DigitsAt(s, from, to) == \A i \in from..to : s[i] \in Digits
NumberAt(s, from, to) == DecimalValue(SubSeq(s, from, to))

\* Whether the first 19 characters of s are YYYY-MM-DD HH:MM:SS.
IsDateSpaceTime(s) ==
    /\ Len(s) >= 19
    /\ DigitsAt(s, 1, 4) /\ s[5] = "-" /\ DigitsAt(s, 6, 7) /\ s[8] = "-"
    /\ DigitsAt(s, 9, 10) /\ s[11] = " "
    /\ DigitsAt(s, 12, 13) /\ s[14] = ":" /\ DigitsAt(s, 15, 16) /\ s[17] = ":"
    /\ DigitsAt(s, 18, 19)

\* Whether s is YYYY-MM-DD HH:MM:SS.ffffff+00:00.
HasFractionShape(s) ==
    /\ Len(s) = 32
    /\ IsDateSpaceTime(s)
    /\ s[20] = "." /\ DigitsAt(s, 21, 26)
    /\ SubSeq(s, 27, 32) = UtcSuffix

\* Whether s is YYYY-MM-DD HH:MM:SS+00:00.
HasNoFractionShape(s) ==
    /\ Len(s) = 25
    /\ IsDateSpaceTime(s)
    /\ SubSeq(s, 20, 25) = UtcSuffix

\* Whether the date and time the text s spells are the instant of value.
SpellsInstant(s, value) ==
    /\ DaysFromCivil(NumberAt(s, 1, 4), NumberAt(s, 6, 7), NumberAt(s, 9, 10))
           = UtcDayOf(value)
    /\ NumberAt(s, 12, 13) * 60 + NumberAt(s, 15, 16) = UtcMinuteOf(value)
    /\ NumberAt(s, 18, 19) = value.v[6]
    /\ (IF Len(s) = 32 THEN NumberAt(s, 21, 26) ELSE 0) = value.v[7]

ParameterCallOnDatetime ==
    enc_op = "_timestamp_to_json_parameter" /\ enc_value.t = "datetime"

\* C15, as stated: for every datetime the encoder returns a text of the
\* shape YYYY-MM-DD HH:MM:SS.ffffff+00:00 that spells the instant in UTC.
C15_FixedShape ==
    ParameterCallOnDatetime =>
        /\ Returned(enc_result)
        /\ IsStr(enc_result.val)
        /\ HasFractionShape(enc_result.val.v)
        /\ SpellsInstant(enc_result.val.v, enc_value)

\* Whether the instant in UTC is of a day a datetime can hold.
InRange(value) ==
    UtcDayOf(value) \in DaysFromCivil(1, 1, 1)..DaysFromCivil(9999, 12, 31)

\* C15, amended: for a datetime whose instant in UTC is of the years
\* 1..9999 the encoder returns the UTC date, one space, the UTC time and
\* "+00:00"; the time has its six-digit fraction exactly when the
\* microsecond is not 0 (YYYY-MM-DD HH:MM:SS+00:00 otherwise).  For a
\* datetime of a zone whose instant in UTC falls outside these years the
\* encoder raises OverflowError.
C15_ShapeByMicrosecond ==
    ParameterCallOnDatetime =>
        IF InRange(enc_value)
        THEN /\ Returned(enc_result)
             /\ IsStr(enc_result.val)
             /\ IF enc_value.v[7] # 0 THEN HasFractionShape(enc_result.val.v)
                ELSE HasNoFractionShape(enc_result.val.v)
             /\ SpellsInstant(enc_result.val.v, enc_value)
        ELSE enc_result = Raise("OverflowError")

\* 2024-01-01 00:30:00 of the zone +05:30, no microsecond, was encoded as
\* "2023-12-31 19:00:00+00:00".
C15_Witness ==
    /\ enc_op = "_timestamp_to_json_parameter"
    /\ enc_value = PyDatetimeZone(2024, 1, 1, 0, 30, 0, 0, 330)
    /\ enc_result = Return(PyStr(<<"2", "0", "2", "3", "-", "1", "2", "-", "3", "1",
                                   " ", "1", "9", ":", "0", "0", ":", "0", "0",
                                   "+", "0", "0", ":", "0", "0">>))


(***************************************************************************)
(* The version caches: BQ_STORAGE_VERSIONS and PYARROW_VERSIONS.  Threads  *)
(* read installed_version concurrently; a step of a thread is one read or  *)
(* write of the attribute, or the import and parse between them.           *)
(***************************************************************************)
\* Threads that read a cache.
MaxReaders == 2
\* Reads of installed_version started, over all threads.
MaxReads == 3

Caches == {"BQStorageVersions", "PyarrowVersions"}
Readers == 1..MaxReaders

\* What "from google.cloud import bigquery_storage" and "import pyarrow"
\* find: no library, a module without __version__, or a module with one.
NotInstalled == [t |-> "ImportError"]
Module(attrs) == [t |-> "module", attrs |-> attrs]
Modules ==
    {NotInstalled, Module({}),
     Module({<<"2", ".", "6", ".", "0">>}), Module({<<"4", ".", "0", ".", "1">>})}

\* getattr(module, "__version__", "0.0.0")
VersionAttr(module) ==
    IF module.attrs = {} THEN <<"0", ".", "0", ".", "0">>
    ELSE CHOOSE text \in module.attrs : TRUE

\* packaging.version.parse(text): the release numbers of a dotted version.
Version(release) == [t |-> "Version", release |-> release]
parse(text) ==
    LET parts == py_split(text) IN
    IF \A i \in 1..Len(parts) : IsDigits(parts[i].v)
    THEN Return(Version([i \in 1..Len(parts) |-> DecimalValue(parts[i].v)]))
    ELSE Raise("InvalidVersion")

\* The import, getattr and parse between the test and the assignment.
Probe(module) ==
    IF module = NotInstalled THEN Raise("ImportError")
    ELSE parse(VersionAttr(module))

\* A mutant of CacheIsEmpty: a test that always finds the cache empty.
CacheIsEmpty_always(value) == TRUE

\* self._installed_version is None
CacheIsEmpty(value) == IsNone(value)

\* A thread outside installed_version: the reads it has begun (n) and, of
\* the last one, the cache it read (self), whether it began with the cache
\* written (late), tested the cache empty (miss) and ran the probe
\* (probed), the version it parsed and what it returned.
IdleReader ==
    [pc |-> "idle", n |-> 0, self |-> "", late |-> FALSE, miss |-> FALSE,
     probed |-> FALSE, parsed |-> None, result |-> Pending]

RECURSIVE ReadsBegun(_)
ReadsBegun(r) == IF r = 0 THEN 0 ELSE readers[r].n + ReadsBegun(r - 1)

\* Thread r begins to read the property installed_version of cache c.
EnterInstalledVersion(r, c) ==
    /\ readers[r].pc = "idle"
    /\ ReadsBegun(MaxReaders) < MaxReads
    /\ readers' = [readers EXCEPT ![r] =
                      [IdleReader EXCEPT !.pc = "test", !.n = readers[r].n + 1,
                                         !.self = c,
                                         !.late = ~IsNone(_installed_version[c])]]
    /\ UNCHANGED <<modules, _installed_version>>
    /\ UNCHANGED <<dec_vars, enc_vars, id_vars, nested_vars>>

\* if self._installed_version is None:
TestCache(r) ==
    /\ readers[r].pc = "test"
    /\ readers' = [readers EXCEPT ![r] =
                      IF CacheIsEmpty(_installed_version[readers[r].self])
                      THEN [@ EXCEPT !.pc = "probe", !.miss = TRUE]
                      ELSE [@ EXCEPT !.pc = "return"]]
    /\ UNCHANGED <<modules, _installed_version>>
    /\ UNCHANGED <<dec_vars, enc_vars, id_vars, nested_vars>>

\* The import and packaging.version.parse(getattr(...)): the version is in
\* the thread's hands, or the read ends with the error.
ImportAndParse(r) ==
    /\ readers[r].pc = "probe"
    /\ LET probe == Probe(modules[readers[r].self]) IN
       readers' = [readers EXCEPT ![r] =
                      IF Raised(probe)
                      THEN [@ EXCEPT !.pc = "idle", !.probed = TRUE, !.result = probe]
                      ELSE [@ EXCEPT !.pc = "store", !.probed = TRUE,
                                     !.parsed = probe.val]]
    /\ UNCHANGED <<modules, _installed_version>>
    /\ UNCHANGED <<dec_vars, enc_vars, id_vars, nested_vars>>

\* self._installed_version = <the parsed version>
AssignCache(r) ==
    /\ readers[r].pc = "store"
    /\ _installed_version' =
           [_installed_version EXCEPT ![readers[r].self] = readers[r].parsed]
    /\ readers' = [readers EXCEPT ![r].pc = "return"]
    /\ UNCHANGED modules
    /\ UNCHANGED <<dec_vars, enc_vars, id_vars, nested_vars>>

\* return self._installed_version
ReturnCache(r) ==
    /\ readers[r].pc = "return"
    /\ readers' = [readers EXCEPT ![r] =
                      [@ EXCEPT !.pc = "idle",
                                !.result = Return(_installed_version[readers[r].self])]]
    /\ UNCHANGED <<modules, _installed_version>>
    /\ UNCHANGED <<dec_vars, enc_vars, id_vars, nested_vars>>

\* __init__ leaves each cache empty.
InitVersions ==
    /\ modules \in [Caches -> Modules]
    /\ _installed_version = [c \in Caches |-> None]
    /\ readers = [r \in Readers |-> IdleReader]
    /\ DecodeIdle /\ EncodeIdle /\ IdIdle /\ NestedIdle

NextVersions ==
    \E r \in Readers :
        \/ \E c \in Caches : EnterInstalledVersion(r, c)
        \/ TestCache(r)
        \/ ImportAndParse(r)
        \/ AssignCache(r)
        \/ ReturnCache(r)

SpecVersions == InitVersions /\ [][NextVersions]_vars

\* Every thread that returned from a read returned the version the probe
\* of its cache's library gives.
SameVersionReturned ==
    \A r \in Readers :
        Returned(readers[r].result) =>
            /\ ~IsNone(readers[r].result.val)
            /\ Return(readers[r].result.val) = Probe(modules[readers[r].self])

\* Only a thread that tested the cache empty is probing or has probed.
ProbeOnlyAfterMiss ==
    \A r \in Readers :
        (readers[r].probed \/ readers[r].pc \in {"probe", "store"}) => readers[r].miss

\* A read that began with the cache written does not probe.
NoProbeWhenLate ==
    \A r \in Readers :
        readers[r].late => ~readers[r].probed /\ readers[r].pc \notin {"probe", "store"}

\* A written cache is not set back to None.
NeverEmptied ==
    \A c \in Caches : ~IsNone(_installed_version[c]) => ~IsNone(_installed_version'[c])

\* C16: each cache is initialize-once-then-memoize.  Under every
\* interleaving of the threads' steps a written cache is never set back to
\* None, every thread that returns returns the same version (the one the
\* probe gives), only a thread that tested the cache empty runs a probe,
\* and a read that begins after a write runs none.
C16_InitializeOnceThenMemoize ==
    /\ [](SameVersionReturned /\ ProbeOnlyAfterMiss /\ NoProbeWhenLate)
    /\ [][NeverEmptied]_vars

\* Thread 2 probed and returned; thread 1, in its second read of the same
\* cache, began after the write, ran no probe and returned the same
\* version.
C16_Witness ==
    /\ readers[1].n = 2 /\ readers[1].late /\ ~readers[1].probed
    /\ readers[2].probed
    /\ readers[1].self = readers[2].self
    /\ Returned(readers[1].result)
    /\ readers[1].result = readers[2].result

====
